---------------------------- MODULE Spec2Model ----------------------------
(***************************************************************************)
(* flash-loop: the Observe-Think-Act loop (FlashLoop.start), the Executor  *)
(* with its double-check selector synthesis, and the Context Manager       *)
(* (pages, return stack, dialogs with a safety-net timer), and the         *)
(* stability waiter (SmartWaiter.wait with its noise filter).              *)
(*                                                                         *)
(* The browser driver, the LLM and the user are the environment: pages     *)
(* open and close, dialogs are raised, timers expire, driver calls         *)
(* succeed or throw.  Every `await` of the code at which another callback  *)
(* can run and change the fields a claim reads is a separate action.       *)
(***************************************************************************)
EXTENDS Integers, Sequences, FiniteSets, TLC

(***************************************************************************)
(* Bounds of the model                                                     *)
(***************************************************************************)
MaxPages == 3
MaxDialogs == 2

Pages == 1..MaxPages
Dialogs == 1..MaxDialogs
NoPage == 0
NoDialog == 0
NoValue == "undefined"

VARIABLES
  pageState,    \* browser: page -> "unborn" | "open" | "closed"
  pageUrl,      \* browser: page -> url of the page when its load wait ends
  dialogState,  \* browser: dialog -> "unraised"|"open"|"accepted"|"dismissed"|"gone"
  dialogType,   \* browser: dialog.type()
  dialogPage,   \* browser: the page that raised the dialog
  dialogCalls,  \* accept()/dismiss() calls made on a dialog, by caller
  cm,           \* ContextManager: pages, activePage, pageStack, pendingDialog, pendingDialogTimeout
  listening,    \* pages on which setupPageListeners has run
  handlerPc,    \* onPageHandler of a page: "none"|"load"|"front"|"done"
  armed,        \* timers set and neither fired nor cleared (one per dialog event)
  timerCb,      \* safety-net callback of a dialog: "idle" | "awaiting"
  pc,           \* position of the calling thread (loop / Executor.execute)
  plan,         \* the ActionPlan being executed
  ex,           \* Executor.execute: locals kept across an await
  result,       \* the ExecutionResult returned by Executor.execute
  trace,        \* driver calls of the current Executor.execute call, in order
  opts,         \* FlashLoopOptions: maxSteps, interactive, owned (no page given)
  step,         \* FlashLoop.start: step
  MAX_STEPS,    \* FlashLoop.start: MAX_STEPS
  activePage,   \* FlashLoop.start: activePage of the current step
  elementMap,   \* the catalog the Observer captured in the current step
  stateWithDialog, \* FlashLoop.start: the state text given to brain.think
  lastError,    \* FlashLoop.start: lastError (NoAdvice is undefined)
  history,      \* HistoryManager.logs
  script,       \* the code the generator has been given, in order
  finalized,    \* generator.finish() has been called
  browser,      \* FlashLoop.browser: "none" | "open" | "closed"
  calls,        \* how often Observer, Planner and Executor were invoked
  waiter,       \* SmartWaiter.wait: the in-page promise, its clock and its timer
  mutations,    \* the MutationRecord batch last classified, and the verdict
  translator,   \* ErrorTranslator.translate: the error given and the advice returned
  returned,     \* the array HistoryManager.getHistory returned to its caller
  obs           \* Observer: the page scanned, the catalog, the handles, the last observation

browserVars == <<pageState, pageUrl, dialogState, dialogType, dialogPage, dialogCalls>>
cmVars == <<cm, listening, handlerPc, armed, timerCb>>
execVars == <<pc, plan, ex, result>>
loopVars == <<opts, step, MAX_STEPS, activePage, elementMap, stateWithDialog,
              lastError, history, script, finalized, browser, calls>>
vars == <<pageState, pageUrl, dialogState, dialogType, dialogPage, dialogCalls,
          cm, listening, handlerPc, armed, timerCb, pc, plan, ex, result, trace,
          opts, step, MAX_STEPS, activePage, elementMap, stateWithDialog,
          lastError, history, script, finalized, browser, calls, waiter, mutations, translator,
          returned, obs>>
waitVars == <<waiter, mutations>>
unitVars == <<translator, returned, obs>>

(***************************************************************************)
(* Error messages.  A message is its text and the set of the substrings    *)
(* the code tests with String.includes that occur in it.                   *)
(***************************************************************************)
FatalPatternsWithoutNotFound ==
  {"requires a target", "requires targetId", "requires a URL", "Unsupported action",
   "not found in memory", "Target ID is missing"}

FatalPatterns ==
  {"requires a target", "requires targetId", "requires a URL", "Unsupported action",
   "not found in memory", "not found", "Target ID is missing"}

Msg(text, has) == [text |-> text, has |-> has]
NoMsg == Msg("", {})

MsgNoOpenPages == Msg("No open pages found in context.", {})
MsgSwitchRequires == Msg("Switch tab requires a target (index or title).", {"requires a target"})
MsgTabOutOfRange == Msg("Tab index is out of range.", {})
MsgTabNotFound == Msg("Tab not found matching", {"not found"})
MsgNoActiveDialog == Msg("No active dialog to handle.", {})
MsgPageClosed == Msg("Target page, context or browser has been closed", {})
MsgDialogHandled == Msg("Cannot handle dialog which is already handled!", {})

Includes(msg, pat) == pat \in msg.has

\* The advice ErrorTranslator.translate returns: its category and, for the
\* fallback, the message it quotes
Advice(category, detail) == [category |-> category, detail |-> detail]
NoAdvice == Advice("", "")

TranslateHiddenBeforeStale(msg) ==
  IF Includes(msg, "Timeout") \/ Includes(msg, "waiting for selector")
    THEN Advice("Timeout Error", "")
  ELSE IF Includes(msg, "intercepted") \/ Includes(msg, "obscures")
    THEN Advice("Interaction Failed", "")
  ELSE IF Includes(msg, "not visible") \/ Includes(msg, "hidden")
    THEN Advice("Visibility Error", "")
  ELSE IF Includes(msg, "detached") \/ Includes(msg, "stale") \/ Includes(msg, "target closed")
    THEN Advice("Stale Element Error", "")
  ELSE IF Includes(msg, "Navigation failed") \/ Includes(msg, "net::")
    THEN Advice("Navigation Error", "")
  ELSE Advice("Unknown Execution Error",
              IF Len(msg.text) > 200 THEN SubSeq(msg.text, 1, 200) \o "..." ELSE msg.text)

\* ErrorTranslator.translate: the first matching category; the fallback
\* quotes the message, cut after 200 characters
Translate(msg) ==
  IF Includes(msg, "Timeout") \/ Includes(msg, "waiting for selector")
    THEN Advice("Timeout Error", "")
  ELSE IF Includes(msg, "intercepted") \/ Includes(msg, "obscures")
    THEN Advice("Interaction Failed", "")
  ELSE IF Includes(msg, "detached") \/ Includes(msg, "stale") \/ Includes(msg, "target closed")
    THEN Advice("Stale Element Error", "")
  ELSE IF Includes(msg, "not visible") \/ Includes(msg, "hidden")
    THEN Advice("Visibility Error", "")
  ELSE IF Includes(msg, "Navigation failed") \/ Includes(msg, "net::")
    THEN Advice("Navigation Error", "")
  ELSE Advice("Unknown Execution Error",
              IF Len(msg.text) > 200 THEN SubSeq(msg.text, 1, 200) \o "..." ELSE msg.text)

IsFatalNever(msg) == FALSE

\* Executor.execute, catch block: isFatal
IsFatal(msg) == \E pat \in FatalPatterns : Includes(msg, pat)

(***************************************************************************)
(* Execution results                                                       *)
(***************************************************************************)
NoCode == [form |-> "", locs |-> <<>>, arg |-> ""]
Code(form, locs, arg) == [form |-> form, locs |-> locs, arg |-> arg]

NoResult == [success |-> FALSE, code |-> NoCode, error |-> NoAdvice,
             userGuidance |-> NoAdvice, raw |-> "", retryable |-> FALSE]

SuccessWithoutCode(code, retryable) ==
  [success |-> TRUE, code |-> NoCode, error |-> NoAdvice, userGuidance |-> NoAdvice,
   raw |-> "", retryable |-> retryable]

Success(code, retryable) ==
  [success |-> TRUE, code |-> code, error |-> NoAdvice, userGuidance |-> NoAdvice,
   raw |-> "", retryable |-> retryable]

\* Executor.execute, catch block
FailureWithoutGuidance(msg) ==
  [success |-> FALSE, code |-> NoCode, error |-> NoAdvice,
   userGuidance |-> NoAdvice, raw |-> msg.text, retryable |-> ~IsFatal(msg)]

Failure(msg) ==
  [success |-> FALSE, code |-> NoCode, error |-> Translate(msg),
   userGuidance |-> Translate(msg), raw |-> msg.text, retryable |-> ~IsFatal(msg)]

(***************************************************************************)
(* Context Manager                                                         *)
(***************************************************************************)
Last(s) == s[Len(s)]
Without(s, p) == SelectSeq(s, LAMBDA q : q # p)
Range(s) == {s[i] : i \in 1..Len(s)}
MinOf(S) == CHOOSE x \in S : \A y \in S : x <= y

UrlKinds == {"site", "googleads"}

isIrrelevantUrlNever(url) == FALSE

\* ContextManager.isIrrelevantUrl
isIrrelevantUrl(url) == url \in {"googleads", "doubleclick", "facebook.com/tr"}

OnCloseKeepsStack(c, p) ==
  LET ps == Without(c.pages, p)
  IN [c EXCEPT !.pages = ps,
               !.activePage =
                 IF c.activePage = p
                 THEN IF Len(c.pageStack) > 0 THEN Last(c.pageStack)
                      ELSE IF Len(ps) > 0 THEN Last(ps) ELSE NoPage
                 ELSE c.activePage]

\* page.on('close') listener of setupPageListeners
OnClose(c, p) ==
  LET ps == Without(c.pages, p)
      st == Without(c.pageStack, p)
  IN [c EXCEPT !.pages = ps,
               !.pageStack = st,
               !.activePage =
                 IF c.activePage = p
                 THEN IF Len(st) > 0 THEN Last(st)
                      ELSE IF Len(ps) > 0 THEN Last(ps) ELSE NoPage
                 ELSE c.activePage]

\* ContextManager.getActivePage: the manager after the call, and whether it threw
GetActivePage(c) ==
  [threw |-> c.activePage = NoPage /\ Len(c.pages) = 0,
   cm |-> IF c.activePage = NoPage /\ Len(c.pages) > 0
          THEN [c EXCEPT !.activePage = c.pages[1]] ELSE c]

\* The browser closes page p: its open dialogs go with it, and the close
\* listener runs on manager c if one was attached.
ClosePage(c, p) ==
  /\ pageState' = [pageState EXCEPT ![p] = "closed"]
  /\ dialogState' = [d \in Dialogs |->
       IF dialogState[d] = "open" /\ dialogPage[d] = p THEN "gone" ELSE dialogState[d]]
  /\ cm' = IF p \in listening THEN OnClose(c, p) ELSE c

InitCm(initial) ==
  [pages |-> initial,
   activePage |-> IF Len(initial) > 0 THEN initial[1] ELSE NoPage,
   pageStack |-> IF Len(initial) > 0 THEN <<initial[1]>> ELSE <<>>,
   pendingDialog |-> NoDialog,
   pendingDialogTimeout |-> NoDialog]

------------------------------------------------------------------------------
(***************************************************************************)
(* Environment: the browser                                                *)
(***************************************************************************)

\* A page opens in the context: the 'page' event starts onPageHandler, which
\* first awaits waitForLoadState.
NewPage(p) ==
  /\ UNCHANGED <<loopVars, trace, waitVars, unitVars>>
  /\ pageState[p] = "unborn"
  /\ \A q \in Pages : q < p => pageState[q] # "unborn"
  /\ \E u \in UrlKinds : pageUrl' = [pageUrl EXCEPT ![p] = u]
  /\ pageState' = [pageState EXCEPT ![p] = "open"]
  /\ handlerPc' = [handlerPc EXCEPT ![p] = "load"]
  /\ UNCHANGED <<dialogState, dialogType, dialogPage, dialogCalls, cm, listening,
                 armed, timerCb>>
  /\ UNCHANGED execVars

\* onPageHandler after the load wait (its rejection is swallowed): the
\* denylist check, then pages.push, setupPageListeners and the start of
\* bringToFront.
HandlerAfterLoad(p) ==
  /\ UNCHANGED <<loopVars, trace, waitVars, unitVars>>
  /\ handlerPc[p] = "load"
  /\ IF isIrrelevantUrl(pageUrl[p]) /\ pageUrl[p] # "about:blank"
     THEN /\ pageState' = [pageState EXCEPT ![p] = "closed"]
          /\ handlerPc' = [handlerPc EXCEPT ![p] = "done"]
          /\ UNCHANGED <<cm, listening>>
     ELSE /\ cm' = [cm EXCEPT !.pages = Append(cm.pages, p)]
          /\ listening' = listening \cup {p}
          /\ handlerPc' = [handlerPc EXCEPT ![p] = "front"]
          /\ UNCHANGED pageState
  /\ UNCHANGED <<pageUrl, dialogState, dialogType, dialogPage, dialogCalls, armed, timerCb>>
  /\ UNCHANGED execVars

OnPageListsOnly(c, p) == c

\* onPageHandler's last two assignments: pageStack.push(page) and
\* activePage = page
OnPage(c, p) == [c EXCEPT !.pageStack = Append(c.pageStack, p), !.activePage = p]

\* onPageHandler after bringToFront: on success the page is pushed on the
\* stack and becomes active; a rejection (the page is closed) is caught.
HandlerAfterFront(p) ==
  /\ UNCHANGED <<loopVars, trace, waitVars, unitVars>>
  /\ handlerPc[p] = "front"
  /\ handlerPc' = [handlerPc EXCEPT ![p] = "done"]
  /\ cm' = IF pageState[p] = "open" THEN OnPage(cm, p) ELSE cm
  /\ UNCHANGED browserVars
  /\ UNCHANGED <<listening, armed, timerCb>>
  /\ UNCHANGED execVars

\* A page is closed by its script or by the user.
PageCloseEvent(p) ==
  /\ UNCHANGED <<loopVars, trace, waitVars, unitVars>>
  /\ pageState[p] = "open"
  /\ ClosePage(cm, p)
  /\ UNCHANGED <<pageUrl, dialogType, dialogPage, dialogCalls, listening, handlerPc,
                 armed, timerCb>>
  /\ UNCHANGED execVars

DialogTypes == {"confirm", "beforeunload"}

OnDialogKeepsFirst(c, d) ==
  IF c.pendingDialog # NoDialog
  THEN [c EXCEPT !.pendingDialogTimeout = d]
  ELSE [c EXCEPT !.pendingDialog = d, !.pendingDialogTimeout = d]

\* The dialog listener's assignments: the slot and the timer reference
OnDialog(c, d) == [c EXCEPT !.pendingDialog = d, !.pendingDialogTimeout = d]

\* page.on('dialog') listener: a page with listeners raises a dialog.
DialogEvent(d, p) ==
  /\ UNCHANGED <<loopVars, trace, waitVars, unitVars>>
  /\ dialogState[d] = "unraised"
  /\ \A e \in Dialogs : e < d => dialogState[e] # "unraised"
  /\ pageState[p] = "open"
  /\ p \in listening
  /\ \A e \in Dialogs : ~(dialogState[e] = "open" /\ dialogPage[e] = p)
  /\ \E t \in DialogTypes : dialogType' = [dialogType EXCEPT ![d] = t]
  /\ dialogState' = [dialogState EXCEPT ![d] = "open"]
  /\ dialogPage' = [dialogPage EXCEPT ![d] = p]
  /\ armed' = (armed \ {cm.pendingDialogTimeout}) \cup {d}
  /\ cm' = OnDialog(cm, d)
  /\ UNCHANGED <<pageState, pageUrl, dialogCalls, listening, handlerPc, timerCb>>
  /\ UNCHANGED execVars

\* dialog.accept() / dialog.dismiss() reaches the browser: it resolves an
\* open dialog and is rejected on any other.
DialogAfter(d, how) ==
  [dialogState EXCEPT ![d] = IF dialogState[d] = "open" THEN how ELSE dialogState[d]]

\* The safety-net timer of dialog d expires: the callback checks the slot
\* and starts accept (beforeunload) or dismiss.
TimerFire(d) ==
  /\ UNCHANGED <<loopVars, trace, waitVars, unitVars>>
  /\ d \in armed
  /\ armed' = armed \ {d}
  /\ IF cm.pendingDialog = NoDialog \/ cm.pendingDialog # d
     THEN UNCHANGED <<dialogState, dialogCalls, timerCb>>
     ELSE /\ dialogState' =
               DialogAfter(d, IF dialogType[d] = "beforeunload" THEN "accepted" ELSE "dismissed")
          /\ dialogCalls' = [dialogCalls EXCEPT ![d].timer = @ + 1]
          /\ timerCb' = [timerCb EXCEPT ![d] = "awaiting"]
  /\ UNCHANGED <<pageState, pageUrl, dialogType, dialogPage, cm, listening, handlerPc>>
  /\ UNCHANGED execVars

\* The timer callback's finally block, after the driver call settled.
TimerDone(d) ==
  /\ UNCHANGED <<loopVars, trace, waitVars, unitVars>>
  /\ timerCb[d] = "awaiting"
  /\ timerCb' = [timerCb EXCEPT ![d] = "idle"]
  /\ cm' = [cm EXCEPT !.pendingDialog = NoDialog, !.pendingDialogTimeout = NoDialog]
  /\ UNCHANGED browserVars
  /\ UNCHANGED <<listening, handlerPc, armed>>
  /\ UNCHANGED execVars

------------------------------------------------------------------------------
(***************************************************************************)
(* Executor.execute: context actions                                       *)
(***************************************************************************)
Truthy(v) == v # NoValue /\ v # ""
OrElse(a, b) == IF Truthy(a) THEN a ELSE b

NaN == -1000
\* parseInt(target, 10) on the values the model plans with
ParseInt(s) ==
  CASE s = "0" -> 0 [] s = "1" -> 1 [] s = "2" -> 2 [] s = "7" -> 7 [] s = "-1" -> -1
    [] OTHER -> NaN

\* title.includes(target) || url.includes(target), for the page titles of the model
Matches(p, s) == (s = "A" /\ p % 2 = 1) \/ (s = "B" /\ p >= 2)

NoLocator == [el |-> "", by |-> ""]
Locator(id, by) == [el |-> id, by |-> by]

ExIdle == [page |-> NoPage, dialog |-> NoDialog, threw |-> FALSE, arg |-> "",
           locator |-> NoLocator, aux |-> NoLocator]

Return(res) ==
  /\ pc' = "result"
  /\ result' = res
  /\ ex' = ExIdle

\* contextManager.getActivePage() throws: no page is left
ExecNoPage ==
  /\ UNCHANGED <<loopVars, trace, waitVars, unitVars>>
  /\ pc = "exec"
  /\ GetActivePage(cm).threw
  /\ Return(Failure(MsgNoOpenPages))
  /\ UNCHANGED browserVars
  /\ UNCHANGED cmVars
  /\ UNCHANGED plan

SwitchTargetByStack(c, index, target) ==
  IF index # NaN
  THEN IF index < 0 \/ index >= Len(c.pages)
       THEN [err |-> MsgTabOutOfRange, page |-> NoPage]
       ELSE [err |-> NoMsg, page |-> c.pages[index + 1]]
  ELSE LET stops == {i \in 1..Len(c.pageStack) :
                       pageState[c.pageStack[i]] # "open" \/ Matches(c.pageStack[i], target)}
       IN IF stops = {} THEN [err |-> MsgTabNotFound, page |-> NoPage]
          ELSE IF pageState[c.pageStack[MinOf(stops)]] # "open"
               THEN [err |-> MsgPageClosed, page |-> NoPage]
               ELSE [err |-> NoMsg, page |-> c.pageStack[MinOf(stops)]]

SwitchTargetClamps(c, index, target) ==
  IF index # NaN
  THEN [err |-> NoMsg,
        page |-> c.pages[IF index < 0 THEN 1
                         ELSE IF index >= Len(c.pages) THEN Len(c.pages) ELSE index + 1]]
  ELSE LET stops == {i \in 1..Len(c.pages) :
                       pageState[c.pages[i]] # "open" \/ Matches(c.pages[i], target)}
       IN IF stops = {} THEN [err |-> NoMsg, page |-> c.pages[1]]
          ELSE IF pageState[c.pages[MinOf(stops)]] # "open"
               THEN [err |-> MsgPageClosed, page |-> NoPage]
               ELSE [err |-> NoMsg, page |-> c.pages[MinOf(stops)]]

\* ContextManager.switchToTab up to the await of bringToFront: the page
\* chosen, or the error thrown.  The title search stops at the first match
\* and throws at a closed page (page.title() rejects).
SwitchTarget(c, index, target) ==
  IF index # NaN
  THEN IF index < 0 \/ index >= Len(c.pages)
       THEN [err |-> MsgTabOutOfRange, page |-> NoPage]
       ELSE [err |-> NoMsg, page |-> c.pages[index + 1]]
  ELSE LET stops == {i \in 1..Len(c.pages) :
                       pageState[c.pages[i]] # "open" \/ Matches(c.pages[i], target)}
       IN IF stops = {} THEN [err |-> MsgTabNotFound, page |-> NoPage]
          ELSE IF pageState[c.pages[MinOf(stops)]] # "open"
               THEN [err |-> MsgPageClosed, page |-> NoPage]
               ELSE [err |-> NoMsg, page |-> c.pages[MinOf(stops)]]

\* switch_tab up to the await of targetPage.bringToFront()
ExecSwitchTab ==
  /\ UNCHANGED <<loopVars, trace, waitVars, unitVars>>
  /\ pc = "exec"
  /\ plan.actionType = "switch_tab"
  /\ ~GetActivePage(cm).threw
  /\ LET c == GetActivePage(cm).cm
         target == OrElse(plan.value, OrElse(plan.targetId, ""))
         index == ParseInt(target)
         r == SwitchTarget(c, index, target)
     IN /\ cm' = c
        /\ IF ~Truthy(target) THEN Return(Failure(MsgSwitchRequires))
           ELSE IF r.err # NoMsg THEN Return(Failure(r.err))
           ELSE /\ pc' = "exec_sw"
                /\ ex' = [ExIdle EXCEPT !.page = r.page,
                                        !.arg = IF index # NaN THEN target ELSE "match"]
                /\ UNCHANGED result
  /\ UNCHANGED browserVars
  /\ UNCHANGED <<listening, handlerPc, armed, timerCb, plan>>

SwitchActivatePushOnly(c, p) ==
  [c EXCEPT !.activePage = p, !.pageStack = Append(c.pageStack, p)]

\* switchToTab after bringToFront: activate and move to the top of the stack
SwitchActivate(c, p) ==
  [c EXCEPT !.activePage = p, !.pageStack = Append(Without(c.pageStack, p), p)]

ExecSwitchTabDone ==
  /\ UNCHANGED <<loopVars, trace, waitVars, unitVars>>
  /\ pc = "exec_sw"
  /\ IF pageState[ex.page] = "open"
     THEN /\ cm' = SwitchActivate(cm, ex.page)
          /\ Return(Success(Code("switch_tab", <<>>, ex.arg), FALSE))
     ELSE /\ cm' = cm
          /\ Return(Failure(MsgPageClosed))
  /\ UNCHANGED browserVars
  /\ UNCHANGED <<listening, handlerPc, armed, timerCb, plan>>

\* close_tab: contextManager.closeActiveTab(); closing a closed page is a no-op
ExecCloseTab ==
  /\ UNCHANGED <<loopVars, trace, waitVars, unitVars>>
  /\ pc = "exec"
  /\ plan.actionType = "close_tab"
  /\ ~GetActivePage(cm).threw
  /\ LET c == GetActivePage(cm).cm
     IN IF pageState[c.activePage] = "open"
        THEN ClosePage(c, c.activePage)
        ELSE cm' = c /\ UNCHANGED <<pageState, dialogState>>
  /\ Return(Success(Code("page.close", <<>>, ""), FALSE))
  /\ UNCHANGED <<pageUrl, dialogType, dialogPage, dialogCalls>>
  /\ UNCHANGED <<listening, handlerPc, armed, timerCb, plan>>

\* ContextManager.handleDialog up to the await of accept()/dismiss():
\* the manager c after the call started, for a pending dialog
HandleDialogStart(c) == [c EXCEPT !.pendingDialogTimeout = NoDialog]

HandleDialogRejectedClearsTimer(c) == [c EXCEPT !.pendingDialogTimeout = NoDialog]

\* ContextManager.handleDialog with an empty slot throws before it touches
\* anything: the manager after the rejected call
HandleDialogRejected(c) == c

\* handle_dialog up to the await of dialog.accept() / dialog.dismiss()
ExecHandleDialog ==
  /\ UNCHANGED <<loopVars, trace, waitVars, unitVars>>
  /\ pc = "exec"
  /\ plan.actionType = "handle_dialog"
  /\ ~GetActivePage(cm).threw
  /\ LET c == GetActivePage(cm).cm
         action == IF plan.value = "accept" THEN "accept" ELSE "dismiss"
         d == c.pendingDialog
     IN IF d = NoDialog
        THEN /\ cm' = HandleDialogRejected(c)
             /\ Return(Failure(MsgNoActiveDialog))
             /\ UNCHANGED <<armed, dialogState, dialogCalls>>
        ELSE /\ cm' = HandleDialogStart(c)
             /\ armed' = armed \ {c.pendingDialogTimeout}
             /\ dialogState' = DialogAfter(d, IF action = "accept" THEN "accepted" ELSE "dismissed")
             /\ dialogCalls' = [dialogCalls EXCEPT ![d].ai = @ + 1]
             /\ pc' = "exec_hd"
             /\ ex' = [ExIdle EXCEPT !.dialog = d, !.threw = dialogState[d] # "open",
                                     !.arg = action]
             /\ UNCHANGED result
  /\ UNCHANGED <<pageState, pageUrl, dialogType, dialogPage>>
  /\ UNCHANGED <<listening, handlerPc, timerCb, plan>>

\* handleDialog's finally block, then the result of handle_dialog
ExecHandleDialogDone ==
  /\ UNCHANGED <<loopVars, trace, waitVars, unitVars>>
  /\ pc = "exec_hd"
  /\ cm' = [cm EXCEPT !.pendingDialog = NoDialog]
  /\ Return(IF ex.threw THEN Failure(MsgDialogHandled)
            ELSE Success(Code("page.once('dialog')", <<>>, ex.arg), FALSE))
  /\ UNCHANGED browserVars
  /\ UNCHANGED <<listening, handlerPc, armed, timerCb, plan>>

(***************************************************************************)
(* Executor.execute: wait_for_element, navigation, finish and element      *)
(* actions.  The catalog maps the IDs "1" and "2" to their descriptors;    *)
(* what a locator matches on the live page is the environment's choice,    *)
(* made when getRobustLocator evaluates it.                                *)
(***************************************************************************)
ContextActions == {"switch_tab", "close_tab", "handle_dialog"}
NavigationActions == {"navigate", "reload", "go_back"}

MsgWaitRequires == Msg("wait_for_element requires targetId", {"requires targetId"})
MsgTargetNotFound == Msg("Target not found", {"not found"})
MsgNavigateRequires == Msg("navigate action requires a URL in value.", {"requires a URL"})
MsgTargetIdMissing == Msg("Target ID is missing for this action.", {"Target ID is missing"})
MsgNotInMemory == Msg("Element with ID not found in memory.", {"not found in memory", "not found"})
MsgDragRequires == Msg("Drag and drop requires targetId2", {"requires targetId"})
MsgTarget2NotFound == Msg("Target 2 not found", {"not found"})
MsgNoRobustSelector ==
  Msg("Failed to generate a robust selector for this element. It might be hidden or dynamic.",
      {"hidden"})
MsgUnsupported == Msg("Unsupported action", {"Unsupported action"})
MsgTimeout == Msg("Timeout 30000ms exceeded.", {"Timeout"})
MsgNavFailed == Msg("net::ERR_NAME_NOT_RESOLVED", {"net::"})

\* The catalog of a page: element "1" has a test id, element
\* "2" nothing but its XPath.
Elements == {"1", "2"}

\* The selectors of the elements an ElementContainer may describe: which of
\* s.testId, s.role with s.role.name, s.placeholder and s.text are present
Selectors(testId, role, placeholder, text) ==
  [testId |-> testId, role |-> role, placeholder |-> placeholder, text |-> text]

Descriptor(id) ==
  CASE id = "1" -> Selectors(TRUE, FALSE, FALSE, FALSE)
    [] id = "3" -> Selectors(TRUE, TRUE, TRUE, TRUE)
    [] id = "4" -> Selectors(FALSE, TRUE, TRUE, TRUE)
    [] id = "5" -> Selectors(FALSE, FALSE, TRUE, TRUE)
    [] id = "6" -> Selectors(FALSE, FALSE, FALSE, TRUE)
    [] id = "7" -> Selectors(TRUE, FALSE, FALSE, TRUE)
    [] id = "8" -> Selectors(FALSE, TRUE, FALSE, FALSE)
    [] OTHER -> Selectors(FALSE, FALSE, FALSE, FALSE)

Described == {"1", "2", "3", "4", "5", "6", "7", "8"}

\* getRobustLocator: the candidates of a descriptor, in the order tried
CandidatesTextBeforePlaceholder(id) ==
  LET s == Descriptor(id)
  IN (IF s.testId THEN <<"getByTestId">> ELSE <<>>)
     \o (IF s.role THEN <<"getByRole">> ELSE <<>>)
     \o (IF s.text THEN <<"getByText">> ELSE <<>>)
     \o (IF s.placeholder THEN <<"getByPlaceholder">> ELSE <<>>)
     \o <<"locator">>

Candidates(id) ==
  LET s == Descriptor(id)
  IN (IF s.testId THEN <<"getByTestId">> ELSE <<>>)
     \o (IF s.role THEN <<"getByRole">> ELSE <<>>)
     \o (IF s.placeholder THEN <<"getByPlaceholder">> ELSE <<>>)
     \o (IF s.text THEN <<"getByText">> ELSE <<>>)
     \o <<"locator">>

\* What loc.count() and loc.isVisible() answer, or that the call throws
Live(count, visible, throws) == [count |-> count, visible |-> visible, throws |-> throws]
NoLive == Live(0, FALSE, FALSE)
LiveThrows == Live(0, FALSE, TRUE)
LiveOn(page) ==
  IF pageState[page] = "open"
  THEN {Live(1, TRUE, FALSE), Live(1, FALSE, FALSE), Live(2, TRUE, FALSE), LiveThrows}
  ELSE {LiveThrows}

\* The answers of the live page to the candidates of an element
Doms(id, page) ==
  IF id \in Described THEN [1..Len(Candidates(id)) -> LiveOn(page)] ELSE {<<>>}

AcceptsAnyUnique(live) == ~live.throws /\ live.count = 1

\* (await loc.count()) === 1 && (await loc.isVisible())
Accepts(live) == ~live.throws /\ live.count = 1 /\ live.visible

Event(op, locator, live) == [op |-> op, locator |-> locator, live |-> live]

\* getRobustLocator: the first candidate accepted and the candidates
\* evaluated on the way, or the error thrown after the last one
getRobustLocator(id, dom) ==
  LET cands == Candidates(id)
      ok == {i \in 1..Len(cands) : Accepts(dom[i])}
      n == IF ok = {} THEN Len(cands) ELSE MinOf(ok)
  IN [threw |-> ok = {},
      locator |-> IF ok = {} THEN NoLocator ELSE Locator(id, cands[n]),
      events |-> [i \in 1..n |-> Event("check", Locator(id, cands[i]), dom[i])]]

Resolved(threw, error, locator, aux, events) ==
  [threw |-> threw, error |-> error, locator |-> locator, aux |-> aux, events |-> events]
Throws(msg, events) == Resolved(TRUE, msg, NoLocator, NoLocator, events)

\* Executor.execute from the target checks to the last getRobustLocator
ResolveTargets(pl, map, dom1, dom2) ==
  IF ~Truthy(pl.targetId)
  THEN Throws(IF pl.actionType = "wait_for_element" THEN MsgWaitRequires
              ELSE MsgTargetIdMissing, <<>>)
  ELSE IF pl.targetId \notin map
  THEN Throws(IF pl.actionType = "wait_for_element" THEN MsgTargetNotFound
              ELSE MsgNotInMemory, <<>>)
  ELSE LET r1 == getRobustLocator(pl.targetId, dom1)
       IN IF r1.threw THEN Throws(MsgNoRobustSelector, r1.events)
          ELSE IF pl.actionType # "drag_and_drop"
          THEN Resolved(FALSE, NoMsg, r1.locator, NoLocator, r1.events)
          ELSE IF ~Truthy(pl.targetId2) THEN Throws(MsgDragRequires, r1.events)
          ELSE IF pl.targetId2 \notin map THEN Throws(MsgTarget2NotFound, r1.events)
          ELSE LET r2 == getRobustLocator(pl.targetId2, dom2)
               IN IF r2.threw THEN Throws(MsgNoRobustSelector, r1.events \o r2.events)
                  ELSE Resolved(FALSE, NoMsg, r1.locator, r2.locator,
                                r1.events \o r2.events)

\* The arms of performLocatorAction the model plans with, and the driver
\* call each makes ("" is the default arm, which throws)
performLocatorAction(actionType) ==
  CASE actionType = "click" -> "click"
    [] actionType = "fill" -> "fill"
    [] actionType = "assert_url" -> "toHaveURL"
    [] actionType = "drag_and_drop" -> "dragTo"
    [] actionType = "scroll" -> "scrollIntoViewIfNeeded"
    [] actionType = "wait_for_element" -> "waitFor"
    [] OTHER -> ""

\* plan.value || ''
Val(pl) == IF Truthy(pl.value) THEN pl.value ELSE ""

generateCode(selectorCode, pl, auxCode) ==
  CASE pl.actionType = "click" -> Code("click", <<selectorCode>>, "")
    [] pl.actionType = "fill" -> Code("fill", <<selectorCode>>, Val(pl))
    [] pl.actionType = "assert_url" -> Code("expect(page).toHaveURL", <<>>, Val(pl))
    [] pl.actionType = "drag_and_drop" -> Code("dragTo", <<selectorCode, auxCode>>, "")
    [] pl.actionType = "scroll" -> Code("scrollIntoViewIfNeeded", <<selectorCode>>, "")
    [] pl.actionType = "wait_for_element" -> Code("waitFor", <<selectorCode>>, "")
    [] OTHER -> Code(pl.actionType, <<selectorCode>>, Val(pl))

\* What an awaited driver call on a page does: NoMsg is success
DriverOutcomes(page, errors) ==
  IF pageState[page] = "open" THEN {NoMsg} \cup errors ELSE {MsgPageClosed}

\* wait_for_element and the element actions up to their action primitive:
\* the target checks and the double check
ExecResolve ==
  /\ UNCHANGED <<waitVars, unitVars>>
  /\ pc = "exec"
  /\ plan.actionType \notin ContextActions \cup NavigationActions
  /\ plan.actionType = "wait_for_element" \/ ~(plan.isFinished \/ plan.actionType = "finish")
  /\ ~GetActivePage(cm).threw
  /\ LET c == GetActivePage(cm).cm
         page == c.activePage
         id2 == IF plan.actionType = "drag_and_drop" THEN plan.targetId2 ELSE NoValue
     IN /\ cm' = c
        /\ \E dom1 \in Doms(plan.targetId, page), dom2 \in Doms(id2, page) :
             LET r == ResolveTargets(plan, elementMap, dom1, dom2)
             IN /\ trace' = trace \o r.events
                /\ IF r.threw
                   THEN Return(Failure(r.error))
                   ELSE /\ pc' = "exec_el"
                        /\ ex' = [ExIdle EXCEPT !.page = page, !.locator = r.locator,
                                                !.aux = r.aux]
                        /\ UNCHANGED result
  /\ UNCHANGED browserVars
  /\ UNCHANGED <<listening, handlerPc, armed, timerCb, plan>>
  /\ UNCHANGED loopVars

\* The action primitive, the stabilization wait and the result
ExecPerform ==
  /\ UNCHANGED <<waitVars, unitVars>>
  /\ pc = "exec_el"
  /\ LET op == performLocatorAction(plan.actionType)
     IN IF op = ""
        THEN /\ Return(Failure(MsgUnsupported))
             /\ UNCHANGED trace
        ELSE \E outcome \in DriverOutcomes(ex.page, {MsgTimeout}) :
               /\ trace' = Append(trace, Event(op, IF op = "toHaveURL" THEN NoLocator
                                                   ELSE ex.locator, NoLive))
               /\ Return(IF outcome = NoMsg
                         THEN Success(generateCode(ex.locator, plan, ex.aux),
                                      plan.actionType = "wait_for_element")
                         ELSE Failure(outcome))
  /\ UNCHANGED browserVars
  /\ UNCHANGED cmVars
  /\ UNCHANGED plan
  /\ UNCHANGED loopVars

\* navigate, reload, go_back
ExecNavigate ==
  /\ UNCHANGED <<waitVars, unitVars>>
  /\ pc = "exec"
  /\ plan.actionType \in NavigationActions
  /\ ~GetActivePage(cm).threw
  /\ LET c == GetActivePage(cm).cm
     IN /\ cm' = c
        /\ IF plan.actionType = "navigate" /\ ~Truthy(plan.value)
           THEN /\ Return(Failure(MsgNavigateRequires))
                /\ UNCHANGED trace
           ELSE \E outcome \in DriverOutcomes(c.activePage, {MsgNavFailed}) :
                  /\ trace' = Append(trace, Event(plan.actionType, NoLocator, NoLive))
                  /\ Return(IF outcome = NoMsg
                            THEN Success(Code(plan.actionType, <<>>, Val(plan)), TRUE)
                            ELSE Failure(outcome))
  /\ UNCHANGED browserVars
  /\ UNCHANGED <<listening, handlerPc, armed, timerCb, plan>>
  /\ UNCHANGED loopVars

\* plan.isFinished || plan.actionType === 'finish'
ExecFinish ==
  /\ pc = "exec"
  /\ plan.actionType \notin ContextActions \cup NavigationActions \cup {"wait_for_element"}
  /\ plan.isFinished \/ plan.actionType = "finish"
  /\ ~GetActivePage(cm).threw
  /\ cm' = GetActivePage(cm).cm
  /\ Return(Success(Code("// Task Finished", <<>>, ""), FALSE))
  /\ UNCHANGED browserVars
  /\ UNCHANGED <<listening, handlerPc, armed, timerCb, plan>>
  /\ UNCHANGED <<loopVars, trace, waitVars, unitVars>>

------------------------------------------------------------------------------
(***************************************************************************)
(* The Context Manager under any caller: Executor.execute is called with   *)
(* any context action, one call at a time.                                 *)
(***************************************************************************)
Plan(a, t, t2, v, f) ==
  [actionType |-> a, targetId |-> t, targetId2 |-> t2, value |-> v, isFinished |-> f]
NoPlan == Plan("", NoValue, NoValue, NoValue, FALSE)

TabValues == {NoValue, "0", "1", "7", "-1", "A", "B", "Z"}

TabPlans ==
  {Plan("switch_tab", NoValue, NoValue, v, FALSE) : v \in TabValues}
  \cup {Plan("close_tab", NoValue, NoValue, NoValue, FALSE)}

DialogPlans ==
  {Plan("handle_dialog", NoValue, NoValue, v, FALSE) : v \in {"accept", "dismiss"}}

CallExecute(plans) ==
  /\ UNCHANGED <<loopVars, trace, waitVars, unitVars>>
  /\ pc = "idle"
  /\ \E pl \in plans : plan' = pl
  /\ pc' = "exec"
  /\ result' = NoResult
  /\ UNCHANGED browserVars
  /\ UNCHANGED cmVars
  /\ UNCHANGED ex

ExecuteReturned ==
  /\ UNCHANGED <<loopVars, trace, waitVars, unitVars>>
  /\ pc = "result"
  /\ pc' = "idle"
  /\ plan' = NoPlan
  /\ result' = NoResult
  /\ UNCHANGED browserVars
  /\ UNCHANGED cmVars
  /\ UNCHANGED ex

(***************************************************************************)
(* SmartWaiter.wait: the promise evaluated in the page.  Time is counted   *)
(* in ticks of Date.now() since `start`; a timer's callback runs in the    *)
(* tick it is due, before or after a mutation batch of the same tick.      *)
(***************************************************************************)
MaxStability == 2
MaxTimeout == 3
MaxBatch == 2

NoTimer == -1
NoWaitResult == [achieved |-> FALSE, duration |-> -1]
WaitResult(achieved, duration) == [achieved |-> achieved, duration |-> duration]

\* An element a MutationRecord targets: tagName, classList.toString(), id,
\* getAttribute('aria-busy') and getAttribute('data-loading') ("null" is null)
Element(tagName, classList, id, ariaBusy, dataLoading) ==
  [tagName |-> tagName, classList |-> classList, id |-> id,
   ariaBusy |-> ariaBusy, dataLoading |-> dataLoading]

\* The targets of the model: a plain element and its variants with one
\* tag, class, id or attribute changed
Targets ==
  LET Plain == Element("DIV", "btn", "main", "null", "null")
  IN {Plain}
     \cup {[Plain EXCEPT !.tagName = t] : t \in {"VIDEO", "AUDIO", "svg", "path", "CANVAS"}}
     \cup {[Plain EXCEPT !.classList = c] :
             c \in {"Spinner", "preloader", "loading", "progress-bar", "busy"}}
     \cup {[Plain EXCEPT !.id = i] :
             i \in {"spinner", "Loader", "loading", "progress", "busy"}}
     \cup {[Plain EXCEPT !.ariaBusy = a] : a \in {"true", "false"}}
     \cup {[Plain EXCEPT !.dataLoading = d] : d \in {"", "false"}}

\* The batches (MutationRecord[]) of up to MaxBatch records
Batches == UNION {[1..n -> Targets] : n \in 0..MaxBatch}

\* String.toLowerCase on the names of the model
ToLowerCase(s) ==
  CASE s = "DIV" -> "div" [] s = "VIDEO" -> "video" [] s = "AUDIO" -> "audio"
    [] s = "CANVAS" -> "canvas" [] s = "Spinner" -> "spinner" [] s = "Loader" -> "loader"
    [] OTHER -> s

\* String.includes on the lower-case names of the model
StrIncludes(s, w) ==
  \/ s = w
  \/ s = "preloader" /\ w = "loader"
  \/ s = "progress-bar" /\ w = "progress"

\* areAllMutationsNoisy: mutations.every over the four checks on the target
areAllMutationsNoisy(batch) ==
  \A k \in 1..Len(batch) :
    LET target == batch[k]
    IN \/ ToLowerCase(target.tagName) \in {"video", "audio", "svg", "path", "canvas"}
       \/ \E w \in {"spinner", "loader", "loading", "progress", "busy"} :
            StrIncludes(ToLowerCase(target.classList), w)
       \/ target.id # "" /\ \E w \in {"spinner", "loader", "loading", "progress"} :
            StrIncludes(ToLowerCase(target.id), w)
       \/ target.ariaBusy = "true"
       \/ target.dataLoading # "null"

\* The waiter before SmartWaiter.wait is called with (stabilityDuration, maxTimeout)
WaiterIdle(duration, timeout) ==
  [st |-> "idle", duration |-> duration, timeout |-> timeout, now |-> 0,
   timer |-> NoTimer, lastChange |-> 0, event |-> "none", result |-> NoWaitResult]

\* resolve({achieved, duration: Date.now() - start})
Resolve(w, achieved, event) ==
  [w EXCEPT !.st = "resolved", !.timer = NoTimer, !.event = event,
            !.result = WaitResult(achieved, w.now)]

ObserverCallbackAtTimeout(w, batch) ==
  IF areAllMutationsNoisy(batch) THEN [w EXCEPT !.event = "noisy"]
  ELSE IF w.now >= w.timeout
       THEN [Resolve(w, FALSE, "change") EXCEPT !.lastChange = w.now]
       ELSE [w EXCEPT !.timer = w.now + w.duration, !.lastChange = w.now,
                      !.event = "change"]

ObserverCallbackAlwaysResets(w, batch) ==
  IF w.now > w.timeout
  THEN [Resolve(w, FALSE, "change") EXCEPT !.lastChange = w.now]
  ELSE [w EXCEPT !.timer = w.now + w.duration, !.lastChange = w.now,
                 !.event = IF areAllMutationsNoisy(batch) THEN "noisy" ELSE "change"]

ObserverCallbackNoTimeout(w, batch) ==
  IF areAllMutationsNoisy(batch) THEN [w EXCEPT !.event = "noisy"]
  ELSE [w EXCEPT !.timer = w.now + w.duration, !.lastChange = w.now,
                 !.event = "change"]

\* The MutationObserver callback: a noisy batch returns at once; another
\* batch clears the timer, then resolves achieved=false past maxTimeout or
\* sets the timer anew.  lastChange and event record what happened.
ObserverCallback(w, batch) ==
  IF areAllMutationsNoisy(batch) THEN [w EXCEPT !.event = "noisy"]
  ELSE IF w.now > w.timeout
       THEN [Resolve(w, FALSE, "change") EXCEPT !.lastChange = w.now]
       ELSE [w EXCEPT !.timer = w.now + w.duration, !.lastChange = w.now,
                      !.event = "change"]

\* The messages page.evaluate rejects with: the three the catch knows, and another
EvaluateErrors ==
  {Msg("Execution context was destroyed", {"Execution context was destroyed"}),
   Msg("Target closed", {"Target closed"}),
   Msg("Navigation failed", {"Navigation failed"}),
   Msg("Evaluation failed", {})}

\* The catch of SmartWaiter.wait: the known interruptions resolve
\* {achieved: false, duration: 0}, other errors are thrown again
WaitCatch(w, msg) ==
  IF \/ Includes(msg, "Execution context was destroyed")
     \/ Includes(msg, "Target closed")
     \/ Includes(msg, "Navigation failed")
  THEN [w EXCEPT !.st = "resolved", !.timer = NoTimer, !.event = "interrupted",
                 !.result = WaitResult(FALSE, 0)]
  ELSE [w EXCEPT !.st = "rejected", !.timer = NoTimer, !.event = "interrupted"]

NotWaiting ==
  /\ UNCHANGED <<browserVars, cmVars, execVars, trace, loopVars>>
  /\ UNCHANGED <<mutations, unitVars>>

\* SmartWaiter.wait is called: without document.body the promise resolves at
\* once, else the observer is connected and the first timer is set
WaitStart(body) ==
  /\ waiter.st = "idle"
  /\ waiter' = IF ~body THEN Resolve(waiter, FALSE, "nobody")
               ELSE [waiter EXCEPT !.st = "watching", !.timer = waiter.duration,
                                   !.event = "start"]
  /\ NotWaiting

\* One tick of Date.now(); a due timer runs before the clock moves on
Tick ==
  /\ waiter.st = "watching"
  /\ waiter.now < waiter.timer
  /\ waiter' = [waiter EXCEPT !.now = waiter.now + 1, !.event = "tick"]
  /\ NotWaiting

\* The observer delivers a batch of mutation records
MutationBatch(batch) ==
  /\ waiter.st = "watching"
  /\ waiter' = ObserverCallback(waiter, batch)
  /\ NotWaiting

\* The timer set for stabilityDuration fires
StabilityTimer ==
  /\ waiter.st = "watching"
  /\ waiter.timer = waiter.now
  /\ waiter' = Resolve(waiter, TRUE, "timer")
  /\ NotWaiting

\* page.evaluate rejects while the promise is pending
WaitInterrupted(msg) ==
  /\ waiter.st = "watching"
  /\ waiter' = WaitCatch(waiter, msg)
  /\ NotWaiting

\* areAllMutationsNoisy is applied to the batch
Classify ==
  /\ mutations.verdict = "none"
  /\ mutations' = [mutations EXCEPT
                     !.verdict = IF areAllMutationsNoisy(mutations.records)
                                 THEN "noisy" ELSE "not noisy"]
  /\ UNCHANGED <<browserVars, cmVars, execVars, trace, loopVars>>
  /\ UNCHANGED <<waiter, unitVars>>

(***************************************************************************)
(* ErrorTranslator.translate applied to error messages                     *)
(***************************************************************************)
MaxMarkers == 2

\* The substrings translate looks for
TranslatePatterns ==
  {"Timeout", "waiting for selector", "intercepted", "obscures", "detached", "stale",
   "target closed", "not visible", "hidden", "Navigation failed", "net::"}

RECURSIVE Digits(_)
\* A text of n characters
Digits(n) == IF n <= 10 THEN SubSeq("0123456789", 1, n) ELSE "0123456789" \o Digits(n - 10)

\* The messages given to translate: up to MaxMarkers of the substrings in a
\* text of 0, 4, 199, 200, 201 or 230 characters
TranslateInputs ==
  {Msg(Digits(n), has) : n \in {0, 4, 199, 200, 201, 230},
                         has \in {h \in SUBSET TranslatePatterns : Cardinality(h) <= MaxMarkers}}

NoTranslation == [error |-> NoMsg, advice |-> NoAdvice, done |-> FALSE]

\* ErrorTranslator.translate(error) is called and returns
TranslateCall ==
  /\ ~translator.done
  /\ translator' = [translator EXCEPT !.advice = Translate(translator.error), !.done = TRUE]
  /\ UNCHANGED <<browserVars, cmVars, execVars, trace, loopVars, waitVars>>
  /\ UNCHANGED <<returned, obs>>

\* The array getHistory has returned: whether it is this.logs itself, its
\* items, and what was done with it last
NoArray == [alias |-> FALSE, items |-> <<>>, op |-> "none"]

(***************************************************************************)
(* Observer (the version with semantic IDs).  A page is a sequence of      *)
(* frames, a frame a sequence of DOM nodes in document order.  A node      *)
(* carries what checkElement reads from it; title, alt, role, href and     *)
(* scroll sizes are absent on every node of the model.                     *)
(***************************************************************************)
MaxScans == 3
MaxEdits == 1

Node(tag, type, autocomplete, value, ariaLabel, placeholder, testId) ==
  [el |-> 0, tag |-> tag, type |-> type, autocomplete |-> autocomplete,
   value |-> value, ariaLabel |-> ariaLabel, placeholder |-> placeholder,
   testId |-> testId, name |-> "", id |-> "", className |-> "", roleAttr |-> "",
   visible |-> TRUE, inViewport |-> TRUE]

\* VALID_ARIA_ROLES
validRoles ==
  {"button", "checkbox", "combobox", "link", "menuitem", "option", "radio", "slider",
   "spinbutton", "switch", "tab", "textbox", "treeitem", "gridcell", "heading"}

\* a || b on strings
TextOr(a, b) == IF a # "" THEN a ELSE b

\* s.slice(0, n)
Slice(s, n) == IF Len(s) > n THEN SubSeq(s, 1, n) ELSE s

\* s.includes(w) and s.startsWith(w)
Occurs(w, s) == \E i \in 1..(Len(s) - Len(w) + 1) : SubSeq(s, i, i + Len(w) - 1) = w

StartsWith(s, w) == Len(s) >= Len(w) /\ SubSeq(s, 1, Len(w)) = w

\* text.replace(/\s+/g, ' ').trim()
RECURSIVE CollapseSpaces(_, _, _)
CollapseSpaces(s, i, afterSpace) ==
  IF i > Len(s) THEN ""
  ELSE IF SubSeq(s, i, i) \in {" ", "\n", "\t"}
       THEN (IF afterSpace THEN "" ELSE " ") \o CollapseSpaces(s, i + 1, TRUE)
       ELSE SubSeq(s, i, i) \o CollapseSpaces(s, i + 1, FALSE)

CleanText(text) ==
  LET s == CollapseSpaces(text, 1, TRUE)
  IN IF s # "" /\ SubSeq(s, Len(s), Len(s)) = " " THEN SubSeq(s, 1, Len(s) - 1) ELSE s

\* s.replace(/\d+/g, '') and s.replace(/\n/g, ' ')
RECURSIVE RemoveDigits(_, _)
RemoveDigits(s, i) ==
  IF i > Len(s) THEN ""
  ELSE (IF Occurs(SubSeq(s, i, i), "0123456789") THEN "" ELSE SubSeq(s, i, i))
       \o RemoveDigits(s, i + 1)

RECURSIVE NewlinesToSpaces(_, _)
NewlinesToSpaces(s, i) ==
  IF i > Len(s) THEN ""
  ELSE (IF SubSeq(s, i, i) = "\n" THEN " " ELSE SubSeq(s, i, i)) \o NewlinesToSpaces(s, i + 1)

\* The decimal numeral of a small number
RECURSIVE ToDecimal(_)
ToDecimal(n) ==
  IF n < 10 THEN SubSeq("0123456789", n + 1, n + 1)
  ELSE ToDecimal(n \div 10) \o SubSeq("0123456789", (n % 10) + 1, (n % 10) + 1)

\* Number.toString(16) below 2^16
RECURSIVE ToHex(_)
ToHex(n) ==
  IF n < 16 THEN SubSeq("0123456789abcdef", n + 1, n + 1)
  ELSE ToHex(n \div 16) \o SubSeq("0123456789abcdef", (n % 16) + 1, (n % 16) + 1)

\* The codes of the printable ASCII characters from the one at place k of
\* the table on, with newline and tab; the grave accent, which a string
\* here cannot hold, is left out
RECURSIVE CharCodes(_, _, _)
CharCodes(table, k, first) ==
  IF k > Len(table) THEN ("\n" :> 10) @@ ("\t" :> 9)
  ELSE (SubSeq(table, k, k) :> first + k - 1) @@ CharCodes(table, k + 1, first)

CharCode ==
  CharCodes(" !\"#$%&'()*+,-./0123456789:;<=>?@ABCDEFGHIJKLMNOPQRSTUVWXYZ[\\]^_", 1, 32)
  @@ CharCodes("abcdefghijklmnopqrstuvwxyz{|}~", 1, 97)

\* str.charCodeAt(i - 1)
charCodeAt(str, i) == CharCode[SubSeq(str, i, i)]

\* a ^ b on the low bits
RECURSIVE Xor(_, _, _)
Xor(a, b, bits) ==
  IF bits = 0 THEN 0
  ELSE (((a % 2) + (b % 2)) % 2) + 2 * Xor(a \div 2, b \div 2, bits - 1)

\* The loop of generateSemanticHash on a 32-bit hash kept as two 16-bit
\* halves: hash ^= code, then Math.imul(hash, 0x01000193), where
\* 0x01000193 = 2^24 + 403; the test on next has it computed before the
\* next character is read
RECURSIVE Fnv(_, _, _)
Fnv(str, i, hash) ==
  IF i > Len(str) THEN hash
  ELSE LET lo == (hash.lo \div 256) * 256 + Xor(hash.lo % 256, charCodeAt(str, i), 8)
           low == lo * 403
           next == [hi |-> (hash.hi * 403 + (low \div 65536) + (lo % 256) * 256) % 65536,
                    lo |-> low % 65536]
       IN IF next.hi + next.lo >= 0 THEN Fnv(str, i + 1, next) ELSE next

\* parts.join('|') of generateSemanticHash; checkElement never sets
\* attributes['name'], so that part is always empty
HashInput(meta) ==
  meta.tagName \o "|" \o meta.selectors.testId \o "|" \o meta.attributes.role \o "|"
  \o meta.attributes.type \o "|" \o meta.selectors.placeholder \o "|" \o meta.attributes.name
  \o "|" \o Slice(RemoveDigits(meta.textContent, 1), 20)

\* generateSemanticHash: FNV-1a from 0x811c9dc5, (hash >>> 0).toString(16)
generateSemanticHash(meta) ==
  LET hash == Fnv(HashInput(meta), 1, [hi |-> 33052, lo |-> 40389])
      low == ToHex(hash.lo)
  IN IF hash.hi = 0 THEN low
     ELSE ToHex(hash.hi) \o SubSeq("000", 1, 4 - Len(low)) \o low

\* isVisibleStyle and isInteractive of checkElement
IsFound(node) ==
  /\ node.visible
  /\ \/ node.tag \in {"button", "a", "input", "select", "textarea", "details", "summary"}
     \/ node.roleAttr \in validRoles

\* The test of checkElement that masks the text
IsMasked(node) ==
  /\ node.tag = "input"
  /\ \/ node.type \in {"password", "email", "tel"}
     \/ /\ node.autocomplete # ""
        /\ \/ Occurs("password", node.autocomplete)
           \/ node.autocomplete = "email"
           \/ StartsWith(node.autocomplete, "cc-")

\* getXPath for a node whose parent is the body of its frame
getXPath(node, items) ==
  IF node.id # "" THEN "//*[@id=\"" \o node.id \o "\"]"
  ELSE "/html/body/" \o node.tag \o "["
       \o ToDecimal(Cardinality({i \in 1..Len(items) :
                                   items[i].tag = node.tag /\ items[i].el <= node.el}))
       \o "]"

\* The metadata checkElement pushes for a node, from its cleanText
Metadata(node, items, cleanText) ==
  LET finalRole == IF node.roleAttr # "" THEN node.roleAttr
                   ELSE IF node.tag = "button" THEN "button"
                   ELSE IF node.tag = "input" /\ node.type = "checkbox" THEN "checkbox"
                   ELSE IF node.tag = "input" /\ node.type = "radio" THEN "radio"
                   ELSE IF node.tag = "input" THEN "textbox"
                   ELSE IF node.tag = "select" THEN "combobox"
                   ELSE ""
      named == TextOr(node.ariaLabel, cleanText)
  IN [xpath |-> getXPath(node, items),
      tagName |-> node.tag,
      inputType |-> node.type,
      description |-> TextOr(node.ariaLabel, TextOr(node.placeholder,
                        TextOr(cleanText, "Unlabeled Element"))),
      isInViewport |-> node.inViewport,
      selectors |-> [testId |-> node.testId,
                     placeholder |-> node.placeholder,
                     text |-> IF Len(cleanText) < 50 THEN cleanText ELSE "",
                     label |-> node.ariaLabel,
                     role |-> IF finalRole # "" /\ named # ""
                              THEN [role |-> finalRole, name |-> named]
                              ELSE [role |-> "", name |-> ""]],
      attributes |-> [id |-> node.id, class |-> node.className, type |-> node.type,
                      role |-> finalRole, name |-> ""],
      textContent |-> Slice(cleanText, 50)]

\* checkElement on a node that is found: the text, masked for a sensitive
\* input, then cleaned
checkElement(node, items) ==
  Metadata(node, items, CleanText(IF IsMasked(node) THEN "[REDACTED]" ELSE node.value))

\* scanFrame: the items of one frame, each with a fresh handle on its node
scanFrame(frame, scan) ==
  LET found == SelectSeq(frame.items, IsFound)
  IN [k \in 1..Len(found) |->
        [handle |-> [scan |-> scan, el |-> found[k].el],
         frameSelectorChain |-> frame.chain,
         metadata |-> checkElement(found[k], frame.items)]]

\* frameResults in the order of page.frames(), a frame whose scan throws
\* left out
RECURSIVE FrameResults(_, _, _)
FrameResults(page, f, scan) ==
  IF f > Len(page) THEN <<>>
  ELSE (IF page[f].accessible THEN scanFrame(page[f], scan) ELSE <<>>)
       \o FrameResults(page, f + 1, scan)

\* frameResults flattened, in the order in which the loops of captureState
\* visit the items
ScanOrderAlternating(page, scan) ==
  LET items == FrameResults(page, 1, scan)
  IN IF scan % 2 = 0 THEN [k \in 1..Len(items) |-> items[Len(items) + 1 - k]] ELSE items

ScanOrder(page, scan) == FrameResults(page, 1, scan)

\* The ID of an item: tag, hash and occurrence number
SemanticIdNoCount(tagName, rawHash, count) == tagName \o "-" \o rawHash

SemanticId(tagName, rawHash, count) == tagName \o "-" \o rawHash \o "-" \o ToDecimal(count)

\* The keys the cleanup deletes
StaleIdsAll(map, currentScanIds) == DOMAIN map

StaleIds(map, currentScanIds) == {id \in DOMAIN map : id \notin currentScanIds}

\* lines.join(separator)
RECURSIVE Join(_, _)
Join(lines, separator) ==
  IF lines = <<>> THEN ""
  ELSE IF Len(lines) = 1 THEN lines[1]
  ELSE lines[1] \o separator \o Join(Tail(lines), separator)

\* One pass of the inner loop of captureState on an item whose hash is
\* rawHash; scan holds hashCounter, currentScanIds, the catalog, the IDs
\* assigned with their handles, yamlLines and hiddenItemCount
ScanItem(scan, item, rawHash) ==
  LET meta == item.metadata
      count == (IF rawHash \in DOMAIN scan.hashCounter
                THEN scan.hashCounter[rawHash] ELSE 0) + 1
      id == SemanticId(meta.tagName, rawHash, count)
      container == [id |-> id,
                    handle |-> item.handle,
                    frameSelectorChain |-> item.frameSelectorChain,
                    xpath |-> meta.xpath,
                    selectors |-> meta.selectors,
                    description |-> meta.description,
                    tagName |-> meta.tagName,
                    isInViewport |-> meta.isInViewport]
      line == "- " \o meta.tagName
              \o (IF meta.inputType # "" THEN "[type=\"" \o meta.inputType \o "\"]" ELSE "")
              \o " \"" \o Slice(NewlinesToSpaces(meta.description, 1), 60)
              \o "\" [ID: " \o id \o "]"
              \o (IF item.frameSelectorChain # <<>> THEN " (in Iframe)" ELSE "")
  IN [hashCounter |-> (rawHash :> count) @@ scan.hashCounter,
      currentScanIds |-> scan.currentScanIds \cup {id},
      map |-> (id :> container) @@ scan.map,
      assigned |-> Append(scan.assigned, [id |-> id, handle |-> item.handle]),
      yamlLines |-> IF meta.isInViewport THEN Append(scan.yamlLines, line)
                    ELSE scan.yamlLines,
      hiddenItemCount |-> IF meta.isInViewport THEN scan.hiddenItemCount
                          ELSE scan.hiddenItemCount + 1]

\* The loops of captureState over the items from item k on
RECURSIVE ScanItems(_, _, _)
ScanItems(items, k, scan) ==
  IF k > Len(items) THEN scan
  ELSE ScanItems(items, k + 1,
                 ScanItem(scan, items[k], generateSemanticHash(items[k].metadata)))

\* The end of captureState on the Observer o after the scan: the cleanup of
\* the catalog and the state text
Observation(o, scan) ==
  LET yamlLines ==
        IF scan.hiddenItemCount > 0
        THEN Append(scan.yamlLines,
                    "\n... (" \o ToDecimal(scan.hiddenItemCount)
                    \o " more items are currently not visible/outside viewport."
                    \o " Use 'scroll' to explore.)")
        ELSE scan.yamlLines
  IN [o EXCEPT
        !.scans = o.scans + 1,
        !.scanned = o.page,
        !.assigned = scan.assigned,
        !.live = o.live \cup {scan.assigned[k].handle : k \in 1..Len(scan.assigned)},
        !.map = [id \in DOMAIN scan.map \ StaleIds(scan.map, scan.currentScanIds) |->
                   scan.map[id]],
        !.stateText = "\nPage Title: Shop\nURL: https://shop.test/\n\n"
                      \o "Interactive Elements (Viewport):\n"
                      \o (IF yamlLines # <<>> THEN Join(yamlLines, "\n")
                          ELSE "(No interactive elements found in viewport)")
                      \o "\n"]

\* captureState on the Observer o
captureState(o) ==
  Observation(o, ScanItems(ScanOrder(o.page, o.scans + 1), 1,
                           [hashCounter |-> <<>>, currentScanIds |-> {}, map |-> o.map,
                            assigned |-> <<>>, yamlLines |-> <<>>, hiddenItemCount |-> 0]))

\* The Observer after construction, before any page is given to it
ObserverNew ==
  [page |-> <<>>, scanned |-> <<>>, scans |-> 0, edits |-> 0, assigned |-> <<>>,
   live |-> {}, map |-> <<>>, stateText |-> ""]

\* The nodes pages are made of
Nodes ==
  LET Button(text) == Node("button", "", "", text, "", "", "")
      Input(type, autocomplete, value) == Node("input", type, autocomplete, value, "", "", "")
  IN <<Button("Item 1"),
       Button("Item 2"),
       [Button("Next") EXCEPT !.inViewport = FALSE],
       [Button("Gone") EXCEPT !.visible = FALSE],
       Button("An offer that is described at some length, in sixty-six characters"),
       Node("div", "", "", "Banner", "", "", ""),
       Input("text", "", "hello\n  world "),
       [Input("password", "", "hunter2") EXCEPT !.id = "pw"],
       Input("email", "", "hunter2"),
       Input("credit-card", "", "4111 1111"),
       Node("input", "text", "billing cc-number", "4111 1111", "", "Card number", ""),
       Node("input", "text", "cc-number", "4111 1111", "", "", "card"),
       Node("input", "text", "work email", "hunter2", "Email", "", "")>>

\* The values typed into inputs
Values == {"hunter2", "s3cret 42"}

\* The pages: one node or one of the listed pairs of nodes in the main
\* frame, and at most one child frame, readable or not, with one button
Documents ==
  LET Place(items, first) == [i \in 1..Len(items) |-> [items[i] EXCEPT !.el = first + i]]
      pairs == {<<1, 1>>, <<1, 2>>, <<2, 1>>, <<1, 3>>, <<4, 1>>, <<6, 1>>, <<7, 8>>,
                <<10, 11>>}
      Main == {[accessible |-> TRUE, chain |-> <<>>, items |-> Place(items, 0)] :
                 items \in {<<Nodes[n]>> : n \in 1..Len(Nodes)}
                           \cup {<<Nodes[p[1]], Nodes[p[2]]>> : p \in pairs}}
      Child == {[accessible |-> a, chain |-> <<"iframe[name=\"pay\"]">>,
                 items |-> Place(<<Nodes[1]>>, 2)] : a \in BOOLEAN}
  IN {<<main>> : main \in Main} \cup {<<main, child>> : main \in Main, child \in Child}

ObserverFrame ==
  /\ UNCHANGED <<browserVars, cmVars, execVars, trace, loopVars, waitVars>>
  /\ UNCHANGED <<translator, returned>>

\* observer.captureState(page)
CaptureState ==
  /\ obs.scans < MaxScans
  /\ obs' = captureState(obs)
  /\ ObserverFrame

\* The page between two observations: a value is typed into an input
TypeValue(f, i, value) ==
  /\ obs.edits < MaxEdits
  /\ obs.page[f].items[i].tag = "input"
  /\ obs.page[f].items[i].value # value
  /\ obs' = [obs EXCEPT !.edits = @ + 1, !.page[f].items[i].value = value]
  /\ ObserverFrame

\* a node is removed from its frame
RemoveNode(f, i) ==
  /\ obs.edits < MaxEdits
  /\ obs' = [obs EXCEPT !.edits = @ + 1,
                        !.page[f].items = SubSeq(@, 1, i - 1) \o SubSeq(@, i + 1, Len(@))]
  /\ ObserverFrame

\* a node is scrolled into or out of the viewport
ScrollNode(f, i) ==
  /\ obs.edits < MaxEdits
  /\ obs' = [obs EXCEPT !.edits = @ + 1, !.page[f].items[i].inViewport = ~@]
  /\ ObserverFrame

\* No translation, no history array and no observation is in progress
InitNoUnits ==
  /\ translator = NoTranslation
  /\ returned = NoArray
  /\ obs = ObserverNew

\* No wait is in progress and no batch is being classified
InitNoWait ==
  /\ waiter = WaiterIdle(1, 1)
  /\ mutations = [records |-> <<>>, verdict |-> "none"]

\* The manager is constructed on a context whose open pages are `initial`;
\* the pages up to `born` have existed (the others have been closed), and
\* the dialogs after `fresh` were raised and dismissed before.
InitBrowser(initial, born, fresh) ==
  /\ pageState = [p \in Pages |-> IF p \in Range(initial) THEN "open"
                                  ELSE IF p <= born THEN "closed" ELSE "unborn"]
  /\ pageUrl = [p \in Pages |-> "site"]
  /\ dialogState = [d \in Dialogs |-> IF d <= fresh THEN "unraised" ELSE "dismissed"]
  /\ dialogType = [d \in Dialogs |-> "confirm"]
  /\ dialogPage = [d \in Dialogs |-> NoPage]
  /\ dialogCalls = [d \in Dialogs |-> [timer |-> 0, ai |-> 0]]
  /\ cm = InitCm(initial)
  /\ listening = Range(initial)
  /\ handlerPc = [p \in Pages |-> IF p \in Range(initial) \/ p <= born THEN "done" ELSE "none"]
  /\ armed = {}
  /\ timerCb = [d \in Dialogs |-> "idle"]

\* No run of FlashLoop.start: the Executor is called directly
InitNoLoop ==
  /\ opts = [maxSteps |-> {}, interactive |-> FALSE, owned |-> FALSE]
  /\ step = 0
  /\ MAX_STEPS = 0
  /\ activePage = NoPage
  /\ elementMap = {}
  /\ stateWithDialog = ""
  /\ lastError = NoAdvice
  /\ history = <<>>
  /\ script = <<>>
  /\ finalized = FALSE
  /\ browser = "none"
  /\ calls = [observer |-> 0, planner |-> 0, executor |-> 0]

InitCaller ==
  /\ pc = "idle"
  /\ plan = NoPlan
  /\ ex = ExIdle
  /\ result = NoResult
  /\ trace = <<>>
  /\ InitNoLoop

EnvPages ==
  \/ \E p \in Pages : NewPage(p)
  \/ \E p \in Pages : HandlerAfterLoad(p)
  \/ \E p \in Pages : HandlerAfterFront(p)
  \/ \E p \in Pages : PageCloseEvent(p)

EnvDialogs ==
  \/ \E d \in Dialogs, p \in Pages : DialogEvent(d, p)
  \/ \E d \in Dialogs : TimerFire(d)
  \/ \E d \in Dialogs : TimerDone(d)

(***************************************************************************)
(* Pages: the page list, the return stack and the active page under page   *)
(* open/close events and switch_tab / close_tab calls.                     *)
(***************************************************************************)
InitPages ==
  /\ InitNoWait
  /\ InitNoUnits
  /\ \E initial \in {<<1>>, <<1, 2>>} : InitBrowser(initial, 0, 0)
  /\ InitCaller

NextPages ==
  \/ EnvPages
  \/ CallExecute(TabPlans)
  \/ ExecNoPage
  \/ ExecSwitchTab
  \/ ExecSwitchTabDone
  \/ ExecCloseTab
  \/ ExecuteReturned

SpecPages == InitPages /\ [][NextPages]_vars

\* The handler's awaits settle: the load wait resolves or times out after
\* 3000 ms, bringToFront resolves or rejects.
FairPages ==
  \A p \in Pages : WF_vars(HandlerAfterLoad(p)) /\ WF_vars(HandlerAfterFront(p))

FairSpecPages == SpecPages /\ FairPages

(***************************************************************************)
(* One call of SmartWaiter.wait on a page whose DOM keeps changing: the    *)
(* clock, the observer's batches, the timer and a rejection of evaluate.   *)
(***************************************************************************)
InitWaiter ==
  /\ InitNoUnits
  /\ InitBrowser(<<1>>, MaxPages, 0)
  /\ InitCaller
  /\ \E duration \in 1..MaxStability, timeout \in 1..MaxTimeout :
       waiter = WaiterIdle(duration, timeout)
  /\ mutations = [records |-> <<>>, verdict |-> "none"]

NextWaiter ==
  \/ \E body \in BOOLEAN : WaitStart(body)
  \/ Tick
  \/ \E batch \in Batches : MutationBatch(batch)
  \/ StabilityTimer
  \/ \E msg \in EvaluateErrors : WaitInterrupted(msg)

SpecWaiter == InitWaiter /\ [][NextWaiter]_vars

\* The caller starts the wait, Date.now() advances and a due timer fires
FairWaiter ==
  /\ WF_vars(\E body \in BOOLEAN : WaitStart(body))
  /\ WF_vars(Tick)
  /\ WF_vars(StabilityTimer)

FairSpecWaiter == SpecWaiter /\ FairWaiter

(***************************************************************************)
(* areAllMutationsNoisy applied to every batch of the model                *)
(***************************************************************************)
InitNoisy ==
  /\ InitNoUnits
  /\ InitBrowser(<<1>>, MaxPages, 0)
  /\ InitCaller
  /\ waiter = WaiterIdle(1, 1)
  /\ \E batch \in Batches : mutations = [records |-> batch, verdict |-> "none"]

NextNoisy == Classify

SpecNoisy == InitNoisy /\ [][NextNoisy]_vars

(***************************************************************************)
(* ErrorTranslator.translate as a function of the message                  *)
(***************************************************************************)
InitTranslate ==
  /\ InitBrowser(<<1>>, MaxPages, 0)
  /\ InitCaller
  /\ InitNoWait
  /\ \E msg \in TranslateInputs : translator = [NoTranslation EXCEPT !.error = msg]
  /\ returned = NoArray
  /\ obs = ObserverNew

SpecTranslate == InitTranslate /\ [][TranslateCall]_vars

(***************************************************************************)
(* Observer.captureState called repeatedly on a page that may change       *)
(* between the calls                                                       *)
(***************************************************************************)
InitObserver ==
  /\ InitBrowser(<<1>>, MaxPages, 0)
  /\ InitCaller
  /\ InitNoWait
  /\ translator = NoTranslation
  /\ returned = NoArray
  /\ \E page \in Documents : obs = [ObserverNew EXCEPT !.page = page]

NextObserver ==
  \/ CaptureState
  \/ \E f \in 1..Len(obs.page) : \E i \in 1..Len(obs.page[f].items) :
       \E value \in Values : TypeValue(f, i, value)
  \/ \E f \in 1..Len(obs.page) : \E i \in 1..Len(obs.page[f].items) : RemoveNode(f, i)
  \/ \E f \in 1..Len(obs.page) : \E i \in 1..Len(obs.page[f].items) : ScrollNode(f, i)

SpecObserver == InitObserver /\ [][NextObserver]_vars

\* The semantic hash of two elements: an element, and the same element with
\* one thing changed.  The Observer's state holds the pair and, once both
\* are hashed, the hash inputs and the hashes.
HashElements ==
  { [Node("button", "", "", "Item 1", "", "", "buy") EXCEPT !.name = "b", !.id = "i"],
    [Node("input", "text", "", "", "", "Search", "") EXCEPT !.name = "q"],
    [Node("input", "text", "", "free text", "", "", "") EXCEPT !.className = "wide"],
    [Node("input", "checkbox", "", "", "Agree", "", "agree") EXCEPT !.name = "ok"],
    [Node("select", "", "", "Red Green Blue", "", "", "") EXCEPT !.name = "colour"],
    [Node("div", "", "", "Menu 2 of 3", "", "", "menu") EXCEPT !.roleAttr = "menuitem"] }

HashChanges ==
  {"tag", "testId", "role", "type", "placeholder", "name", "text", "id", "class",
   "digits", "nothing"}

\* The element with one thing changed
Changed(node, change) ==
  CASE change = "tag" -> [node EXCEPT !.tag = IF @ = "summary" THEN "details" ELSE "summary"]
    [] change = "testId" -> [node EXCEPT !.testId = @ \o "-2"]
    [] change = "role" -> [node EXCEPT !.roleAttr = IF @ = "tab" THEN "switch" ELSE "tab"]
    [] change = "type" -> [node EXCEPT !.type = IF @ = "search" THEN "url" ELSE "search"]
    [] change = "placeholder" -> [node EXCEPT !.placeholder = @ \o "..."]
    [] change = "name" -> [node EXCEPT !.name = @ \o "2"]
    [] change = "text" -> [node EXCEPT !.value = "New " \o @]
    [] change = "id" -> [node EXCEPT !.id = @ \o "2"]
    [] change = "class" -> [node EXCEPT !.className = @ \o " active"]
    [] change = "digits" -> [node EXCEPT !.value = @ \o "42"]
    [] OTHER -> node

InitHash ==
  /\ InitBrowser(<<1>>, MaxPages, 0)
  /\ InitCaller
  /\ InitNoWait
  /\ translator = NoTranslation
  /\ returned = NoArray
  /\ \E node \in HashElements, change \in HashChanges :
       obs = [change |-> change, elements |-> <<node, Changed(node, change)>>,
              inputs |-> <<>>, hashes |-> <<>>]

\* checkElement and generateSemanticHash on the next element of the pair
HashElement ==
  /\ Len(obs.hashes) < Len(obs.elements)
  /\ LET node == obs.elements[Len(obs.hashes) + 1]
         meta == checkElement(node, <<node>>)
     IN obs' = [obs EXCEPT !.inputs = Append(@, HashInput(meta)),
                           !.hashes = Append(@, generateSemanticHash(meta))]
  /\ ObserverFrame

SpecHash == InitHash /\ [][HashElement]_vars

(***************************************************************************)
(* Dialogs: the pending slot and the safety-net timer under dialog events, *)
(* timer expiry, page closes and handle_dialog calls.                      *)
(***************************************************************************)
InitDialogs ==
  /\ InitNoWait
  /\ InitNoUnits
  /\ InitBrowser(<<1, 2>>, MaxPages, MaxDialogs)
  /\ InitCaller

NextDialogs ==
  \/ \E p \in Pages : PageCloseEvent(p)
  \/ EnvDialogs
  \/ CallExecute(DialogPlans)
  \/ ExecNoPage
  \/ ExecHandleDialog
  \/ ExecHandleDialogDone
  \/ ExecuteReturned

SpecDialogs == InitDialogs /\ [][NextDialogs]_vars

\* Node runs an expired timer's callback, and a driver call settles.
FairDialogs ==
  /\ \A d \in Dialogs : WF_vars(TimerFire(d))
  /\ \A d \in Dialogs : WF_vars(TimerDone(d))
  /\ WF_vars(ExecHandleDialogDone)

FairSpecDialogs == SpecDialogs /\ FairDialogs

------------------------------------------------------------------------------
(***************************************************************************)
(* FlashLoop.start: the Observe-Think-Act loop                             *)
(***************************************************************************)
DefaultMaxSteps == 20
MAX_LOGS == 20

\* Bounds: the largest maxSteps option given, and the steps of a run that
\* are explored (a run with more steps left is not followed further)
MaxStepsGiven == 1
StepCap == MaxStepsGiven + 1

\* options.maxSteps: not given, or an integer
MaxStepsOptions == {{}} \cup {{n} : n \in -1..MaxStepsGiven}

\* this.options.maxSteps || 20
MaxStepsOf(o) ==
  IF o.maxSteps = {} \/ o.maxSteps = {0} THEN DefaultMaxSteps
  ELSE CHOOSE n \in o.maxSteps : TRUE

LoopGuardInclusive(s, max) == s <= max

\* while (step < MAX_STEPS)
LoopGuard(s, max) == s < max

\* HistoryManager.add
HistoryAddKeepsOne(logs, message) == <<message>>

HistoryAdd(logs, message) ==
  LET pushed == Append(logs, message)
  IN IF Len(pushed) > MAX_LOGS THEN Tail(pushed) ELSE pushed

GetHistoryReturnsLogs(logs) == [alias |-> TRUE, items |-> logs, op |-> "getHistory"]

\* HistoryManager.getHistory: [...this.logs], a new array
GetHistory(logs) == [alias |-> FALSE, items |-> logs, op |-> "getHistory"]

\* `SUCCESS: ${actionType}` and `ERROR: ${actionType} failed. ${error}`
Entry(kind, actionType, error) == [kind |-> kind, actionType |-> actionType, error |-> error]

\* The plans Brain.think returns in the model
LoopPlans ==
  { Plan("click", "1", NoValue, NoValue, FALSE),
    Plan("click", NoValue, NoValue, NoValue, FALSE),
    Plan("click", "9", NoValue, NoValue, FALSE),
    Plan("fill", "2", NoValue, "text", FALSE),
    Plan("drag_and_drop", "1", "2", NoValue, FALSE),
    Plan("drag_and_drop", "1", NoValue, NoValue, FALSE),
    Plan("wait_for_element", "1", NoValue, NoValue, FALSE),
    Plan("wait_for_element", "9", NoValue, NoValue, FALSE),
    Plan("assert_url", "1", NoValue, "url", FALSE),
    Plan("scroll", "1", NoValue, NoValue, FALSE),
    Plan("scroll", NoValue, NoValue, NoValue, FALSE),
    Plan("navigate", NoValue, NoValue, "url", FALSE),
    Plan("navigate", NoValue, NoValue, NoValue, FALSE),
    Plan("navigate", NoValue, NoValue, "file:///etc/passwd", FALSE),
    Plan("switch_tab", NoValue, NoValue, "0", FALSE),
    Plan("switch_tab", NoValue, NoValue, "Z", FALSE),
    Plan("close_tab", NoValue, NoValue, NoValue, FALSE),
    Plan("handle_dialog", NoValue, NoValue, "accept", FALSE),
    Plan("finish", NoValue, NoValue, NoValue, TRUE),
    Plan("finish", NoValue, NoValue, NoValue, FALSE) }

\* The answers to the override prompt in the model: action type, target ID
\* ("" is an empty input) and value
Overrides ==
  { [actionType |-> "click", targetId |-> "1", value |-> NoValue],
    [actionType |-> "click", targetId |-> "", value |-> NoValue],
    [actionType |-> "navigate", targetId |-> "", value |-> "url"],
    [actionType |-> "finish", targetId |-> "", value |-> NoValue] }

\* The plan after an override: the value prompt is asked for five action
\* types only, and an empty target ID becomes undefined
Override(pl, o) ==
  [pl EXCEPT !.actionType = o.actionType,
             !.targetId = IF Truthy(o.targetId) THEN o.targetId ELSE NoValue,
             !.value = IF o.actionType \in {"fill", "type", "navigate", "scroll", "switch_tab"}
                       THEN o.value ELSE NoValue]

\* start() up to the loop: launch of the owned browser, generator.init.
\* A failed import of inquirer sets options.interactive to false: such a run
\* is the run that starts with interactive = FALSE.
LoopStart ==
  /\ UNCHANGED <<waitVars, unitVars>>
  /\ pc = "start"
  /\ browser' = IF opts.owned THEN "open" ELSE browser
  /\ step' = 0
  /\ MAX_STEPS' = MaxStepsOf(opts)
  /\ lastError' = NoAdvice
  /\ pc' = "head"
  /\ UNCHANGED browserVars
  /\ UNCHANGED cmVars
  /\ UNCHANGED <<plan, ex, result, trace>>
  /\ UNCHANGED <<opts, activePage, elementMap, stateWithDialog, history, script,
                 finalized, calls>>

\* The loop test, step++ and getActivePage
LoopHead ==
  /\ UNCHANGED <<waitVars, unitVars>>
  /\ pc = "head"
  /\ step < StepCap \/ ~LoopGuard(step, MAX_STEPS)
  /\ IF LoopGuard(step, MAX_STEPS)
     THEN /\ step' = step + 1
          /\ cm' = GetActivePage(cm).cm
          /\ IF GetActivePage(cm).threw
             THEN /\ pc' = "thrown"
                  /\ UNCHANGED activePage
             ELSE /\ pc' = "observe"
                  /\ activePage' = GetActivePage(cm).cm.activePage
     ELSE /\ pc' = "finish"
          /\ UNCHANGED <<step, cm, activePage>>
  /\ UNCHANGED browserVars
  /\ UNCHANGED <<listening, handlerPc, armed, timerCb>>
  /\ UNCHANGED <<plan, ex, result, trace>>
  /\ UNCHANGED <<opts, MAX_STEPS, elementMap, stateWithDialog, lastError, history,
                 script, finalized,
                 browser, calls>>

\* The state text Observer.captureState returns for a page, as far as the
\* loop looks at it
StateText(page) == "URL: " \o pageUrl[page] \o "\n(No visible interactive elements found.)"

\* dialog.message() of the dialogs the browser raises
DialogMessage(d) == IF d = 1 THEN "Leave site?" ELSE "Delete the item?"

\* ContextManager.getPendingDialogInfo (NoValue is null)
getPendingDialogInfo(c) ==
  IF c.pendingDialog # NoDialog
  THEN "[Alert Dialog] Type: " \o dialogType[c.pendingDialog] \o ", Message: \""
       \o DialogMessage(c.pendingDialog) \o "\". Use 'handle_dialog' action."
  ELSE NoValue

StateWithDialogAppended(dialogInfo, stateText) ==
  IF Truthy(dialogInfo) THEN stateText \o "\n\n" \o "(!) " \o dialogInfo ELSE stateText

\* FlashLoop.start: stateWithDialog.  The warning sign that opens the banner
\* (U+26A0 U+FE0F) is written (!)
StateWithDialog(dialogInfo, stateText) ==
  IF Truthy(dialogInfo) THEN "(!) " \o dialogInfo \o "\n\n" \o stateText ELSE stateText

\* activePage.title(), observer.captureState and the call of brain.think
LoopObserve ==
  /\ UNCHANGED <<waitVars, unitVars>>
  /\ pc = "observe"
  /\ IF pageState[activePage] # "open"
     THEN /\ pc' = "thrown"
          /\ UNCHANGED <<elementMap, stateWithDialog, calls>>
     ELSE /\ elementMap' = Elements
          /\ stateWithDialog' = StateWithDialog(getPendingDialogInfo(cm),
                                                StateText(activePage))
          /\ calls' = [calls EXCEPT !.observer = @ + 1, !.planner = @ + 1]
          /\ pc' = "think"
  /\ UNCHANGED browserVars
  /\ UNCHANGED cmVars
  /\ UNCHANGED <<plan, ex, result, trace>>
  /\ UNCHANGED <<opts, step, MAX_STEPS, activePage, lastError, history, script,
                 finalized, browser>>

\* brain.think rejects (the LLM call fails)
LoopThinkThrows ==
  /\ UNCHANGED <<waitVars, unitVars>>
  /\ pc = "think"
  /\ pc' = "thrown"
  /\ UNCHANGED browserVars
  /\ UNCHANGED cmVars
  /\ UNCHANGED <<plan, ex, result, trace>>
  /\ UNCHANGED loopVars

\* executor.execute(plan, contextManager, elementMap) is called
Execute(pl) ==
  /\ plan' = pl
  /\ pc' = "exec"
  /\ calls' = [calls EXCEPT !.executor = @ + 1]
  /\ trace' = <<>>
  /\ result' = NoResult

\* brain.think returns a plan
LoopThink ==
  /\ UNCHANGED <<waitVars, unitVars>>
  /\ pc = "think"
  /\ \E pl \in LoopPlans :
       IF pl.isFinished /\ ~opts.interactive
       THEN /\ pc' = "finish"
            /\ plan' = pl
            /\ UNCHANGED <<calls, trace, result>>
       ELSE IF opts.interactive
       THEN /\ pc' = "prompt"
            /\ plan' = pl
            /\ UNCHANGED <<calls, trace, result>>
       ELSE Execute(pl)
  /\ UNCHANGED browserVars
  /\ UNCHANGED cmVars
  /\ UNCHANGED ex
  /\ UNCHANGED <<opts, step, MAX_STEPS, activePage, elementMap, stateWithDialog,
                 lastError, history,
                 script, finalized, browser>>

\* Interactive mode: the user's answer to the proposal
LoopPrompt ==
  /\ UNCHANGED <<waitVars, unitVars>>
  /\ pc = "prompt"
  /\ \E choice \in {"execute", "override", "skip", "quit"}, o \in Overrides :
       LET pl == IF choice = "override" THEN Override(plan, o) ELSE plan
       IN IF choice = "quit"
          THEN /\ pc' = "finish"
               /\ UNCHANGED <<plan, calls, trace, result>>
          ELSE IF choice = "skip"
          THEN /\ pc' = "head"
               /\ UNCHANGED <<plan, calls, trace, result>>
          ELSE IF pl.actionType = "finish" \/ pl.isFinished
          THEN /\ pc' = "finish"
               /\ plan' = pl
               /\ UNCHANGED <<calls, trace, result>>
          ELSE Execute(pl)
  /\ UNCHANGED browserVars
  /\ UNCHANGED cmVars
  /\ UNCHANGED ex
  /\ UNCHANGED <<opts, step, MAX_STEPS, activePage, elementMap, stateWithDialog,
                 lastError, history,
                 script, finalized, browser>>

\* The loop body after executor.execute has returned
LoopAfterExecute ==
  /\ UNCHANGED <<waitVars, unitVars>>
  /\ pc = "result"
  /\ IF result.success
     THEN /\ history' = HistoryAdd(history, Entry("SUCCESS", plan.actionType, NoAdvice))
          /\ lastError' = NoAdvice
          /\ script' = IF result.code # NoCode THEN Append(script, result.code) ELSE script
          /\ pc' = "head"
     ELSE /\ history' = HistoryAdd(history, Entry("ERROR", plan.actionType, result.error))
          /\ lastError' = IF result.userGuidance # NoAdvice THEN result.userGuidance
                          ELSE result.error
          /\ script' = script
          /\ pc' = IF ~result.retryable /\ ~opts.interactive THEN "finish" ELSE "head"
  /\ plan' = NoPlan
  /\ result' = NoResult
  /\ trace' = <<>>
  /\ UNCHANGED browserVars
  /\ UNCHANGED cmVars
  /\ UNCHANGED ex
  /\ UNCHANGED <<opts, step, MAX_STEPS, activePage, elementMap, stateWithDialog,
                 finalized, browser, calls>>

RECURSIVE CloseEach(_, _)
\* The close listeners of the pages in ps run on manager c
CloseEach(c, ps) ==
  IF ps = <<>> THEN c ELSE CloseEach(OnClose(c, Head(ps)), Tail(ps))

\* After the loop: generator.finish() and browser.close() of an owned browser
LoopFinish ==
  /\ UNCHANGED <<waitVars, unitVars>>
  /\ pc = "finish"
  /\ finalized' = TRUE
  /\ IF browser = "open"
     THEN /\ browser' = "closed"
          /\ pageState' = [p \in Pages |-> IF pageState[p] = "open" THEN "closed"
                                           ELSE pageState[p]]
          /\ dialogState' = [d \in Dialogs |-> IF dialogState[d] = "open" THEN "gone"
                                               ELSE dialogState[d]]
          /\ cm' = CloseEach(cm, SelectSeq(cm.pages, LAMBDA p : pageState[p] = "open"))
     ELSE UNCHANGED <<browser, pageState, dialogState, cm>>
  /\ pc' = "returned"
  /\ UNCHANGED <<pageUrl, dialogType, dialogPage, dialogCalls>>
  /\ UNCHANGED <<listening, handlerPc, armed, timerCb>>
  /\ UNCHANGED <<plan, ex, result, trace>>
  /\ UNCHANGED <<opts, step, MAX_STEPS, activePage, elementMap, stateWithDialog,
                 lastError, history,
                 script, calls>>

\* A run of start(): hosted on a given page or on a browser of its own, with
\* one open page that can close at any time.  No dialog is raised during the
\* run (dialogs are the subject of SpecDialogs), so handle_dialog finds the
\* slot empty and its second half is never reached here.
InitLoop ==
  /\ InitNoWait
  /\ InitNoUnits
  /\ InitBrowser(<<1>>, MaxPages, 0)
  /\ pc = "start"
  /\ plan = NoPlan
  /\ ex = ExIdle
  /\ result = NoResult
  /\ trace = <<>>
  /\ opts \in [maxSteps : MaxStepsOptions, interactive : BOOLEAN, owned : BOOLEAN]
  /\ step = 0
  /\ MAX_STEPS = 0
  /\ activePage = NoPage
  /\ elementMap = {}
  /\ stateWithDialog = ""
  /\ lastError = NoAdvice
  /\ history = <<>>
  /\ script = <<>>
  /\ finalized = FALSE
  /\ browser = "none"
  /\ calls = [observer |-> 0, planner |-> 0, executor |-> 0]

NextLoop ==
  \/ \E p \in Pages : PageCloseEvent(p)
  \/ LoopStart
  \/ LoopHead
  \/ LoopObserve
  \/ LoopThinkThrows
  \/ LoopThink
  \/ LoopPrompt
  \/ ExecNoPage
  \/ ExecSwitchTab
  \/ ExecSwitchTabDone
  \/ ExecCloseTab
  \/ ExecHandleDialog
  \/ ExecResolve
  \/ ExecPerform
  \/ ExecNavigate
  \/ ExecFinish
  \/ LoopAfterExecute
  \/ LoopFinish

SpecLoop == InitLoop /\ [][NextLoop]_vars

\* A non-interactive run of start() during which the pages raise dialogs:
\* the dialog listener, the safety-net timer and handle_dialog run between
\* the steps of the loop.
InitBanner ==
  /\ InitNoWait
  /\ InitNoUnits
  /\ InitBrowser(<<1>>, MaxPages, MaxDialogs)
  /\ pc = "start"
  /\ plan = NoPlan
  /\ ex = ExIdle
  /\ result = NoResult
  /\ trace = <<>>
  /\ opts \in [maxSteps : {{MaxStepsGiven}}, interactive : {FALSE}, owned : BOOLEAN]
  /\ step = 0
  /\ MAX_STEPS = 0
  /\ activePage = NoPage
  /\ elementMap = {}
  /\ stateWithDialog = ""
  /\ lastError = NoAdvice
  /\ history = <<>>
  /\ script = <<>>
  /\ finalized = FALSE
  /\ browser = "none"
  /\ calls = [observer |-> 0, planner |-> 0, executor |-> 0]

NextBanner ==
  \/ \E p \in Pages : PageCloseEvent(p)
  \/ \E d \in Dialogs, p \in Pages : DialogEvent(d, p)
  \/ \E d \in Dialogs : TimerFire(d)
  \/ \E d \in Dialogs : TimerDone(d)
  \/ LoopStart
  \/ LoopHead
  \/ LoopObserve
  \/ LoopThinkThrows
  \/ LoopThink
  \/ ExecNoPage
  \/ ExecSwitchTab
  \/ ExecSwitchTabDone
  \/ ExecCloseTab
  \/ ExecHandleDialog
  \/ ExecHandleDialogDone
  \/ ExecResolve
  \/ ExecPerform
  \/ ExecNavigate
  \/ ExecFinish
  \/ LoopAfterExecute
  \/ LoopFinish

SpecBanner == InitBanner /\ [][NextBanner]_vars

(***************************************************************************)
(* A HistoryManager under add, clear and getHistory, and a caller that     *)
(* changes the array it got.  The caller numbers its messages: 1 after     *)
(* construction or clear, then one more than the last.                     *)
(***************************************************************************)
MaxAdds == 22

HistoryFrame ==
  /\ UNCHANGED <<browserVars, cmVars, execVars, trace, waitVars>>
  /\ UNCHANGED <<opts, step, MAX_STEPS, activePage, elementMap, stateWithDialog,
                 lastError, script,
                 finalized, browser, calls>>
  /\ UNCHANGED <<translator, obs>>

\* add(message); an array that is this.logs itself shows the change
HistoryAddCall ==
  /\ LET message == IF history = <<>> THEN 1 ELSE Last(history) + 1
     IN /\ message <= MaxAdds
        /\ history' = HistoryAdd(history, message)
  /\ returned' = IF returned.alias THEN [returned EXCEPT !.items = history'] ELSE returned
  /\ HistoryFrame

\* clear(): this.logs = []
HistoryClearCall ==
  /\ history # <<>>
  /\ history' = <<>>
  /\ returned' = [returned EXCEPT !.alias = FALSE]
  /\ HistoryFrame

\* getHistory()
HistoryGetCall ==
  /\ returned' = GetHistory(history)
  /\ UNCHANGED history
  /\ HistoryFrame

\* The caller changes the array it got: push of a foreign item, shift, or
\* length = 0
ArrayChange ==
  /\ returned.op # "none"
  /\ \E items \in {Append(returned.items, 0), SubSeq(returned.items, 2, Len(returned.items)),
                    <<>>} :
       /\ items # returned.items
       /\ Cardinality({i \in 1..Len(items) : items[i] = 0}) <= 1
       /\ returned' = [returned EXCEPT !.items = items, !.op = "changed"]
       /\ history' = IF returned.alias THEN items ELSE history
  /\ HistoryFrame

InitHistory ==
  /\ InitBrowser(<<1>>, MaxPages, 0)
  /\ InitCaller
  /\ InitNoWait
  /\ InitNoUnits

NextHistory ==
  \/ HistoryAddCall
  \/ HistoryClearCall
  \/ HistoryGetCall
  \/ ArrayChange

SpecHistory == InitHistory /\ [][NextHistory]_vars

(***************************************************************************)
(* getRobustLocator inside Executor.execute: one click on an element of    *)
(* any description, the page answering each candidate in any way           *)
(***************************************************************************)
LocatorPlans == {Plan("click", id, NoValue, NoValue, FALSE) : id \in Described}

InitLocator ==
  /\ InitNoWait
  /\ InitNoUnits
  /\ InitBrowser(<<1>>, 0, 0)
  /\ pc = "idle"
  /\ plan = NoPlan
  /\ ex = ExIdle
  /\ result = NoResult
  /\ trace = <<>>
  /\ opts = [maxSteps |-> {}, interactive |-> FALSE, owned |-> FALSE]
  /\ step = 0
  /\ MAX_STEPS = 0
  /\ activePage = NoPage
  /\ elementMap = Described
  /\ stateWithDialog = ""
  /\ lastError = NoAdvice
  /\ history = <<>>
  /\ script = <<>>
  /\ finalized = FALSE
  /\ browser = "none"
  /\ calls = [observer |-> 0, planner |-> 0, executor |-> 0]

NextLocator ==
  \/ CallExecute(LocatorPlans)
  \/ ExecResolve
  \/ ExecPerform

SpecLocator == InitLocator /\ [][NextLocator]_vars

------------------------------------------------------------------------------
(***************************************************************************)
(* Claims about the Context Manager                                        *)
(***************************************************************************)
SomePageOpen == \E p \in Pages : pageState[p] = "open"

\* C6: while some page is open, activePage is never a closed page, and
\* getActivePage never returns a closed page.
C6_ActivePageIsOpen ==
  SomePageOpen =>
    /\ cm.activePage # NoPage => pageState[cm.activePage] = "open"
    /\ ~GetActivePage(cm).threw => pageState[GetActivePage(cm).cm.activePage] = "open"

\* C7: every dialog raised on a managed page is eventually accepted or
\* dismissed (or ends with its page).
C7_EveryDialogResolved ==
  \A d \in Dialogs : (dialogState[d] = "open") ~> (dialogState[d] # "open")

\* C8: the safety-net timer and handle_dialog never both call accept or
\* dismiss on the same dialog.
C8_OneConsumerPerDialog ==
  \A d \in Dialogs : dialogCalls[d].timer + dialogCalls[d].ai <= 1

OpenDialogs == {d \in Dialogs : dialogState[d] = "open"}
RaisedDialogs == {d \in Dialogs : dialogState[d] # "unraised"}

\* C9 (as claimed): there are never two dialogs raised and not yet accepted
\* or dismissed.
C9_AtMostOneOpenDialog == Cardinality(OpenDialogs) <= 1

\* C9 (amended): the manager tracks one dialog at most, and it is the one
\* raised last; an earlier dialog that is still open is no longer tracked.
C9_SlotHoldsLatestDialog ==
  cm.pendingDialog # NoDialog =>
    /\ cm.pendingDialog \in RaisedDialogs
    /\ \A d \in RaisedDialogs : d <= cm.pendingDialog

C9_Witness == Cardinality(OpenDialogs) = 2 /\ cm.pendingDialog = 2

HandledByAi == {d \in Dialogs : dialogCalls[d].ai > 0}

\* An Executor.execute call of handle_dialog that starts with an empty slot
SecondHandleDialog ==
  /\ pc = "exec"
  /\ plan.actionType = "handle_dialog"
  /\ cm.pendingDialog = NoDialog
  /\ HandledByAi # {}
  /\ pc' # pc

HandleDialogNoEffect ==
  /\ result'.success = FALSE
  /\ result'.raw = MsgNoActiveDialog.text
  /\ cm' = cm
  /\ armed' = armed
  /\ dialogCalls' = dialogCalls
  /\ dialogState' = dialogState

\* C10 (as claimed): after a dialog was handled, a handle_dialog with no
\* dialog pending fails with "no pending dialog" and changes nothing.
C10_SecondHandleIsNoOp == [][SecondHandleDialog => HandleDialogNoEffect]_vars

\* C10 (amended): the same, while the manager has an active page.
C10_SecondHandleIsNoOpWithPage ==
  [][SecondHandleDialog /\ cm.activePage # NoPage => HandleDialogNoEffect]_vars

C10_Witness ==
  /\ pc = "result"
  /\ plan.actionType = "handle_dialog"
  /\ result.raw = MsgNoActiveDialog.text
  /\ \E d \in HandledByAi : dialogState[d] \in {"accepted", "dismissed"}


------------------------------------------------------------------------------
(***************************************************************************)
(* Claims about the Executor and the loop                                  *)
(***************************************************************************)
\* A check of loc that found exactly one element, visible, and that comes
\* before every action primitive of the call
LocatorChecked(loc) ==
  \E i \in 1..Len(trace) :
    /\ trace[i].op = "check"
    /\ trace[i].locator = loc
    /\ ~trace[i].live.throws /\ trace[i].live.count = 1 /\ trace[i].live.visible
    /\ \A j \in 1..Len(trace) : trace[j].op # "check" => i < j

\* C1: when Executor.execute returns success with code that contains a
\* locator expression, every locator of that code was checked earlier in the
\* same call, before the action primitive, to match exactly one element that
\* is visible.
C1_DoubleCheck ==
  (pc = "result" /\ result.success /\ result.code.locs # <<>>)
    => \A k \in 1..Len(result.code.locs) : LocatorChecked(result.code.locs[k])

\* A drag and drop has succeeded: two locators in the code, dragTo called
C1_Witness ==
  /\ pc = "result"
  /\ result.success
  /\ Len(result.code.locs) = 2
  /\ \E i \in 1..Len(trace) : trace[i].op = "dragTo"

\* C2 as stated: for every maxSteps the caller passes (a negative one
\* allowing no step), the step counter and the invocations of Observer,
\* Planner and Executor never exceed it.
C2_StepsWithinMaxSteps ==
  \A n \in opts.maxSteps :
    LET most == IF n < 0 THEN 0 ELSE n
    IN /\ step <= most
       /\ calls.observer <= most
       /\ calls.planner <= most
       /\ calls.executor <= most

\* C2, amended: for every positive maxSteps the step counter and the
\* invocations of Observer, Planner and Executor never exceed it, and
\* whatever the option is they never exceed MAX_STEPS.
C2_StepsWithinPositiveMaxSteps ==
  /\ \A n \in opts.maxSteps :
       n > 0 => /\ step <= n
                /\ calls.observer <= n
                /\ calls.planner <= n
                /\ calls.executor <= n
  /\ pc # "start" => /\ step <= MAX_STEPS \/ step = 0
                     /\ calls.observer <= step
                     /\ calls.planner <= step
                     /\ calls.executor <= step

\* A run with maxSteps = 1 has used its one step and left the loop at the cap
C2_Witness ==
  /\ opts.maxSteps = {1}
  /\ step = 1
  /\ calls.executor = 1
  /\ pc = "returned"

\* An element action whose targetId is missing or not a key of the catalog
ElementActions == {"click", "fill", "assert_url", "drag_and_drop"}
UnrecoverableTarget ==
  /\ pc = "result"
  /\ plan.actionType \in ElementActions
  /\ ~Truthy(plan.targetId) \/ plan.targetId \notin elementMap

\* What C3 promises of such a call and of the step of the loop after it
UnrecoverableOutcome ==
  /\ ~result.success
  /\ ~result.retryable
  /\ trace = <<>>
  /\ script' = script
  /\ (~opts.interactive /\ pc' # pc) => pc' = "finish"

\* C3 as stated: an element action with a missing or unknown targetId
\* returns success=false, retryable=false, without a driver call; the
\* non-interactive loop exits at that step and appends no code.
C3_UnrecoverableTarget == [][UnrecoverableTarget => UnrecoverableOutcome]_vars

\* C3, amended: the same, for a call that finds an active page.
C3_UnrecoverableTargetWithPage ==
  [][(UnrecoverableTarget /\ result.raw # MsgNoOpenPages.text) => UnrecoverableOutcome]_vars

\* The Executor has rejected an ID that is not in the catalog, in a
\* non-interactive run
C3_Witness ==
  /\ UnrecoverableTarget
  /\ ~opts.interactive
  /\ result.raw = MsgNotInMemory.text

\* The Fatal-input errors: a missing required field, an unknown action, a
\* target ID that is not in the catalog
FatalInputErrors ==
  {MsgSwitchRequires.text, MsgWaitRequires.text, MsgNavigateRequires.text,
   MsgTargetIdMissing.text, MsgDragRequires.text, MsgUnsupported.text,
   MsgNotInMemory.text, MsgTargetNotFound.text, MsgTarget2NotFound.text}

\* C4: in non-interactive mode, after an Executor failure that is not a
\* Fatal-input error the loop goes on to another step, with lastError set to
\* the translated error.
C4_OnlyFatalInputEndsLoop ==
  [][(/\ pc = "result"
      /\ ~opts.interactive
      /\ ~result.success
      /\ result.raw \notin FatalInputErrors
      /\ pc' # pc)
     => (pc' = "head" /\ lastError' = result.error)]_vars

\* C5: whenever start() has terminated, by return or by an exception, the
\* generator has been finalized and a browser the loop launched is closed.
C5_CleanupOnTermination ==
  pc \in {"returned", "thrown"} => (finalized /\ (opts.owned => browser = "closed"))


------------------------------------------------------------------------------
(***************************************************************************)
(* Claims about pages, tabs and the return stack                           *)
(***************************************************************************)
\* The active page p of the manager closes in this step
ActivePageCloses(p) ==
  /\ cm.activePage = p
  /\ pageState[p] = "open"
  /\ pageState'[p] = "closed"

\* C11: when the active page closes it leaves the page list and the return
\* stack, and the active page becomes the top of the remaining stack, or
\* with an empty stack the last page of the list, or none.
C11_ActivePageCloseRestores ==
  [][\A p \in Pages :
       ActivePageCloses(p) =>
         /\ cm'.pages = Without(cm.pages, p)
         /\ cm'.pageStack = Without(cm.pageStack, p)
         /\ cm'.activePage =
              IF Without(cm.pageStack, p) # <<>> THEN Last(Without(cm.pageStack, p))
              ELSE IF Without(cm.pages, p) # <<>> THEN Last(Without(cm.pages, p))
              ELSE NoPage]_vars

\* Page 3 was opened, activated over page 1 and closed: page 1 is back
C11_Witness ==
  /\ pageState[3] = "closed"
  /\ handlerPc[3] = "done"
  /\ pageUrl[3] = "site"
  /\ cm.activePage = 1
  /\ cm.pageStack = <<1>>
  /\ 3 \notin Range(cm.pages)
  /\ pageState[1] = "open"


\* The URLs of the denylist, and a page that arrived with one
DenylistedUrls == {"googleads", "doubleclick", "facebook.com/tr"}

\* C12: a newly opened page whose URL is on the denylist is closed by the
\* manager when its handler ends, is never the active page, never in the
\* page list and never on the return stack, and the steps of its handler
\* leave the manager as it was.
C12_DenylistedPageIgnored ==
  [][\A p \in Pages :
       (pageState'[p] # "unborn" /\ pageUrl'[p] \in DenylistedUrls) =>
         /\ p \notin Range(cm'.pages)
         /\ p \notin Range(cm'.pageStack)
         /\ cm'.activePage # p
         /\ handlerPc'[p] = "done" => pageState'[p] = "closed"
         /\ handlerPc'[p] # handlerPc[p] => cm' = cm]_vars

\* The handler of a denylisted popup has closed it while page 1 stays active
C12_Witness ==
  \E p \in Pages :
    /\ pageUrl[p] \in DenylistedUrls
    /\ handlerPc[p] = "done"
    /\ pageState[p] = "closed"
    /\ cm.activePage = 1

\* C13: a newly opened page whose URL is not on the denylist and that stays
\* open eventually is the active page and the top of the return stack, which
\* is the page getActivePage hands to the next observation.
C13_NewPageBecomesActive ==
  \A p \in Pages :
    (handlerPc[p] = "load" /\ pageUrl[p] \notin DenylistedUrls)
      ~> \/ pageState[p] # "open"
         \/ /\ cm.activePage = p
            /\ cm.pageStack # <<>>
            /\ Last(cm.pageStack) = p
            /\ ~GetActivePage(cm).threw
            /\ GetActivePage(cm).cm.activePage = p

C13_Witness ==
  /\ pageState[3] = "open"
  /\ pageUrl[3] = "site"
  /\ handlerPc[3] = "done"
  /\ cm.activePage = 3
  /\ Last(cm.pageStack) = 3
  /\ GetActivePage(cm).cm.activePage = 3

\* The step in which switchToTab succeeds on page p (bringToFront resolved)
SwitchSucceeds(p) ==
  /\ pc = "exec_sw"
  /\ ex.page = p
  /\ pc' = "result"
  /\ result'.success

Occurrences(s, p) == Cardinality({i \in 1..Len(s) : s[i] = p})

\* C14: after a successful switchToTab to page P, P is the active page and
\* the top of the return stack, it is on the stack exactly once, and the
\* other stack entries keep their relative order.
C14_SwitchMovesToTop ==
  [][\A p \in Pages :
       SwitchSucceeds(p) =>
         /\ cm'.activePage = p
         /\ Last(cm'.pageStack) = p
         /\ Occurrences(cm'.pageStack, p) = 1
         /\ Without(cm'.pageStack, p) = Without(cm.pageStack, p)]_vars

\* Page 1 was below the popup on the stack and has been switched to
C14_Witness ==
  /\ pc = "result"
  /\ plan.actionType = "switch_tab"
  /\ result.success
  /\ cm.pageStack = <<2, 1>>
  /\ cm.activePage = 1

\* The Executor is about to call switchToTab on manager c with a target
\* that is a number outside 0..n-1, or a text no open page of the list shows
SwitchHasNoTarget(c) ==
  LET target == OrElse(plan.value, OrElse(plan.targetId, ""))
      index == ParseInt(target)
  IN /\ pc = "exec"
     /\ plan.actionType = "switch_tab"
     /\ Truthy(target)
     /\ IF index # NaN
        THEN index < 0 \/ index > Len(c.pages) - 1
        ELSE \A i \in 1..Len(c.pages) :
               pageState[c.pages[i]] = "open" => ~Matches(c.pages[i], target)

\* C15: switchToTab with an index outside 0..n-1, or with a text that matches
\* no open page, raises an error (the action fails) and leaves activePage,
\* the page list and the return stack as they were when it was called.
C15_FailedSwitchChangesNothing ==
  [][(~GetActivePage(cm).threw /\ SwitchHasNoTarget(GetActivePage(cm).cm) /\ pc' # pc) =>
       /\ pc' = "result"
       /\ ~result'.success
       /\ cm'.activePage = GetActivePage(cm).cm.activePage
       /\ cm'.pages = GetActivePage(cm).cm.pages
       /\ cm'.pageStack = GetActivePage(cm).cm.pageStack]_vars

\* A text that matches neither of two open pages has been rejected
C15_Witness ==
  /\ pc = "result"
  /\ plan.actionType = "switch_tab"
  /\ plan.value = "Z"
  /\ ~result.success
  /\ result.raw = MsgTabNotFound.text
  /\ cm.pages = <<1, 2>>
  /\ cm.pageStack = <<1, 2>>
  /\ cm.activePage = 2
  /\ pageState[1] = "open" /\ pageState[2] = "open"

\* The open pages of sequence s that show the text, by position
MatchesIn(s, target) ==
  {i \in 1..Len(s) : pageState[s[i]] = "open" /\ Matches(s[i], target)}

FirstMatch(s, target) ==
  IF MatchesIn(s, target) = {} THEN NoPage ELSE s[MinOf(MatchesIn(s, target))]

TopMatch(s, target) ==
  IF MatchesIn(s, target) = {} THEN NoPage
  ELSE s[CHOOSE i \in MatchesIn(s, target) : \A j \in MatchesIn(s, target) : j <= i]

\* The step in which switch_tab, given a text that several open pages of
\* the list show, settles on a page (and awaits its bringToFront)
SwitchChoosesAmongSeveral(target) ==
  /\ pc = "exec"
  /\ plan.actionType = "switch_tab"
  /\ target = OrElse(plan.value, OrElse(plan.targetId, ""))
  /\ ParseInt(target) = NaN
  /\ Cardinality(MatchesIn(cm.pages, target)) > 1
  /\ pc' = "exec_sw"

\* C16 as stated: with several open pages matching, the page switch_tab
\* settles on is the first match in return-stack order (read from the bottom
\* or from the top of the stack).
C16_FirstMatchInStackOrder ==
  [][\A target \in TabValues :
       SwitchChoosesAmongSeveral(target) =>
         \/ ex'.page = FirstMatch(cm.pageStack, target)
         \/ ex'.page = TopMatch(cm.pageStack, target)]_vars

\* C16 amended: with several open pages matching, the page switch_tab
\* settles on is the first match in the order of the page list.
C16_FirstMatchInListOrder ==
  [][\A target \in TabValues :
       SwitchChoosesAmongSeveral(target) =>
         ex'.page = FirstMatch(cm.pages, target)]_vars

\* Page 2, listed before page 3 but never put on the stack, was chosen and
\* activated although page 3 matched as well
C16_Witness ==
  /\ pc = "result"
  /\ plan.actionType = "switch_tab"
  /\ plan.value = "B"
  /\ result.success
  /\ cm.pages = <<1, 2, 3>>
  /\ cm.pageStack = <<1, 3, 2>>
  /\ cm.activePage = 2
  /\ pageState[3] = "open"

(***************************************************************************)
(* Claims about the stability waiter                                       *)
(***************************************************************************)
\* SmartWaiter.wait has returned a result for a page that had a body
WaitReturned == waiter.st = "resolved" /\ waiter.event # "nobody"

ResolvesStable ==
  /\ waiter.st = "watching"
  /\ waiter'.st = "resolved"
  /\ waiter'.result.achieved

\* The step in which the observer callback has run on a noisy batch
NoisyBatchDelivered ==
  /\ waiter.st = "watching"
  /\ waiter' # waiter
  /\ waiter'.event = "noisy"

\* C18: when the wait resolves achieved=true, at least stabilityDuration has
\* passed since the last non-noisy batch (since the start if there was
\* none); a noisy batch neither resets the timer nor resolves the wait.
C18_StableAfterIdlePeriod ==
  [][/\ ResolvesStable =>
          waiter'.result.duration - waiter.lastChange >= waiter.duration
     /\ NoisyBatchDelivered =>
          /\ waiter'.st = "watching"
          /\ waiter'.timer = waiter.timer
          /\ waiter'.lastChange = waiter.lastChange
          /\ waiter'.result = waiter.result]_vars

\* Stable one idle period after a non-noisy batch that came after the start
C18_Witness ==
  /\ waiter.st = "resolved"
  /\ waiter.result.achieved
  /\ waiter.lastChange > 0
  /\ waiter.result.duration = waiter.lastChange + waiter.duration

WaitSettled == waiter.st \in {"resolved", "rejected"}

\* C19: every call of SmartWaiter.wait ends, whatever batches keep coming,
\* and it ends no later than maxTimeout + stabilityDuration ticks after its
\* start.
C19_WaitEndsWithinBound ==
  /\ (waiter.st = "watching") ~> WaitSettled
  /\ [](waiter.now <= waiter.timeout + waiter.duration)
  /\ [](waiter.st = "resolved" =>
          waiter.result.duration <= waiter.timeout + waiter.duration)

\* The latest possible end: a non-noisy batch at maxTimeout, then silence
C19_Witness ==
  /\ waiter.st = "resolved"
  /\ waiter.event = "timer"
  /\ waiter.lastChange = waiter.timeout
  /\ waiter.result.duration = waiter.timeout + waiter.duration

\* The words C20 lists for class and id
NoiseWords == {"spinner", "loader", "loading", "progress", "busy"}

\* The classification C20 states, for one target
ListedAsNoisy(target) ==
  \/ ToLowerCase(target.tagName) \in {"video", "audio", "svg", "path", "canvas"}
  \/ \E w \in NoiseWords : StrIncludes(ToLowerCase(target.classList), w)
  \/ \E w \in NoiseWords : StrIncludes(ToLowerCase(target.id), w)
  \/ target.ariaBusy = "true"
  \/ target.dataLoading # "null"

\* C20: a batch is classified noisy iff every record in it targets a media
\* tag (video, audio, svg, path, canvas), an element whose class or id
\* contains spinner, loader, loading, progress or busy, or an element with
\* aria-busy="true" or a data-loading attribute.
C20_NoisyIffEveryRecordListed ==
  mutations.verdict # "none" =>
    (mutations.verdict = "noisy" <=>
       \A k \in 1..Len(mutations.records) : ListedAsNoisy(mutations.records[k]))

(***************************************************************************)
(* Claims about the error translator and the history log                   *)
(***************************************************************************)
\* The categories in the order C21 gives, with the substrings of each
TranslateCategories ==
  << [name |-> "Timeout Error", pats |-> {"Timeout", "waiting for selector"}],
     [name |-> "Interaction Failed", pats |-> {"intercepted", "obscures"}],
     [name |-> "Stale Element Error", pats |-> {"detached", "stale", "target closed"}],
     [name |-> "Visibility Error", pats |-> {"not visible", "hidden"}],
     [name |-> "Navigation Error", pats |-> {"Navigation failed", "net::"}] >>

\* The positions of the categories a message matches
MatchingCategories(msg) ==
  {i \in 1..Len(TranslateCategories) : TranslateCategories[i].pats \cap msg.has # {}}

\* C21: translate returns an advice for every message: that of the earliest
\* matching category in the order Timeout, Click-intercepted, Detached/Stale,
\* Not-visible/hidden, Navigation-failed, else the Unknown advice with the
\* message cut to its first 200 characters.
C21_FirstMatchingCategory ==
  translator.done =>
    LET msg == translator.error
        m == MatchingCategories(msg)
    IN IF m # {}
       THEN translator.advice.category = TranslateCategories[MinOf(m)].name
       ELSE /\ translator.advice.category = "Unknown Execution Error"
            /\ IF Len(msg.text) <= 200
               THEN translator.advice.detail = msg.text
               ELSE /\ SubSeq(translator.advice.detail, 1, 200) = SubSeq(msg.text, 1, 200)
                    /\ Len(translator.advice.detail) = 203

\* A message showing both 'hidden' and 'stale' got the Detached/Stale advice
C21_Witness ==
  /\ translator.done
  /\ translator.error.has = {"hidden", "stale"}
  /\ translator.advice.category = "Stale Element Error"

\* The numbers first..last in order
Interval(first, last) == [i \in 1..(last - first + 1) |-> first + i - 1]

\* What C22 says the log holds when n messages were added since the last
\* clear: the most recent 20 of them, oldest first
MostRecent(n) == IF n <= 20 THEN Interval(1, n) ELSE Interval(n - 19, n)

\* C22: the log holds the entries added since the last clear, oldest first,
\* limited to the most recent 20 and never more than 20; getHistory returns
\* exactly them; changing the returned array leaves the log as it was.
C22_BoundedFifoAndCopy ==
  [][/\ Len(history') <= 20
     /\ history' # <<>> => history' = MostRecent(Last(history'))
     /\ (returned'.op = "getHistory" /\ returned' # returned) =>
          /\ returned'.items = MostRecent(IF history = <<>> THEN 0 ELSE Last(history))
          /\ history' = history
     /\ (returned'.op = "changed" /\ returned' # returned) => history' = history]_vars

\* 22 messages were added, the array read then was emptied, the log is intact
C22_Witness ==
  /\ history = Interval(3, 22)
  /\ returned.op = "changed"
  /\ returned.items = <<>>

(***************************************************************************)
(* Claims about the Observer                                               *)
(***************************************************************************)
\* A step that is a call of captureState
Captures == obs'.scans = obs.scans + 1

\* The IDs a scan has assigned
AssignedIds(o) == {o.assigned[k].id : k \in 1..Len(o.assigned)}

\* The ID is printed in the state text
Printed(id, stateText) == Occurs("[ID: " \o id \o "]", stateText)

\* C23: every element ID that appears in the state text of an observation
\* is a key of the elementMap of that observation, among the IDs of the
\* scan and those of the catalog before it, also after the cleanup of stale
\* IDs and in every later observation.
C23_PrintedIdsAreKeys ==
  [][Captures =>
       \A id \in AssignedIds(obs') \cup DOMAIN obs.map :
         Printed(id, obs'.stateText) => id \in DOMAIN obs'.map]_vars

\* A later observation has dropped an element that an earlier one held, and
\* prints an ID
C23_Witness ==
  /\ obs.scans >= 2
  /\ \E h \in obs.live :
       /\ h.scan < obs.scans
       /\ \A k \in 1..Len(obs.assigned) : obs.assigned[k].handle.el # h.el
  /\ \E id \in DOMAIN obs.map : Printed(id, obs.stateText)

\* C24: the items of one observation get pairwise different IDs, and the
\* catalog holds every one of them under its ID with its own handle.
C24_DistinctIdsInOneScan ==
  /\ \A j, k \in 1..Len(obs.assigned) :
       j # k => obs.assigned[j].id # obs.assigned[k].id
  /\ \A k \in 1..Len(obs.assigned) :
       /\ obs.assigned[k].id \in DOMAIN obs.map
       /\ obs.map[obs.assigned[k].id].handle = obs.assigned[k].handle

\* Two items of one observation, in different frames, have the same tag and
\* hash
C24_Witness ==
  \E j, k \in 1..Len(obs.assigned) :
    LET a == obs.assigned[j].id
        b == obs.assigned[k].id
    IN /\ j # k
       /\ obs.map[a].frameSelectorChain # obs.map[b].frameSelectorChain
       /\ Len(a) = Len(b)
       /\ SubSeq(a, 1, Len(a) - 1) = SubSeq(b, 1, Len(b) - 1)

\* The DOM of a page: its nodes without their place in the viewport
Dom(page) ==
  [f \in 1..Len(page) |->
     [page[f] EXCEPT !.items = [i \in 1..Len(page[f].items) |->
                                  [page[f].items[i] EXCEPT !.inViewport = TRUE]]]]

\* The IDs of an observation with the element each is bound to
Bindings(o) == {<<o.assigned[k].id, o.assigned[k].handle.el>> : k \in 1..Len(o.assigned)}

\* C25: a captureState on a page whose DOM is as it was at the previous
\* captureState returns the same IDs, each bound to the same element.
C25_SameIdsOnUnchangedDom ==
  [][(Captures /\ obs.scans >= 1 /\ Dom(obs.page) = Dom(obs.scanned)) =>
       /\ Bindings(obs') = Bindings(obs)
       /\ DOMAIN obs'.map = DOMAIN obs.map]_vars

\* A second observation of a page that never changed and has two elements
\* of equal tag and hash
C25_Witness ==
  /\ obs.scans >= 2
  /\ obs.edits = 0
  /\ \E j, k \in 1..Len(obs.assigned) :
       /\ j # k
       /\ Len(obs.assigned[j].id) = Len(obs.assigned[k].id)
       /\ SubSeq(obs.assigned[j].id, 1, Len(obs.assigned[j].id) - 1)
          = SubSeq(obs.assigned[k].id, 1, Len(obs.assigned[k].id) - 1)

\* C26: when captureState has returned, no handle of an earlier observation
\* is still live.
C26_EarlierHandlesReleased ==
  \A h \in obs.live : h.scan = obs.scans

\* An input the claim of C27 calls sensitive
SensitiveInput(node) ==
  /\ node.tag = "input"
  /\ \/ node.type \in {"password", "email", "tel", "credit-card"}
     \/ Occurs("password", node.autocomplete)
     \/ Occurs("email", node.autocomplete)
     \/ Occurs("cc-", node.autocomplete)

\* What an observation of the page shows: the state text and the catalog
\* without the handles
Shown(page) ==
  LET o == captureState([ObserverNew EXCEPT !.page = page])
  IN [stateText |-> o.stateText,
      catalog |-> [id \in DOMAIN o.map |-> [o.map[id] EXCEPT !.handle = 0]]]

\* C27: an observation of a page does not depend on the value of a
\* sensitive input: with any other value in that input the state text, the
\* IDs, the descriptions and the selector candidates are the same.
C27_SensitiveValueNeverShown ==
  obs.scans >= 1 =>
    \A f \in 1..Len(obs.scanned) : \A i \in 1..Len(obs.scanned[f].items) :
      SensitiveInput(obs.scanned[f].items[i]) =>
        \A value \in Values :
          Shown([obs.scanned EXCEPT ![f].items[i].value = value]) = Shown(obs.scanned)

(***************************************************************************)
(* Claims about the selector synthesizer and the loop's error and history  *)
(***************************************************************************)
\* The candidates of C28 in its order, those with data for the element
SynthesizerOrder(id) ==
  SelectSeq(<<"getByTestId", "getByRole", "getByPlaceholder", "getByText", "locator">>,
            LAMBDA by : \/ by = "getByTestId" /\ Descriptor(id).testId
                        \/ by = "getByRole" /\ Descriptor(id).role
                        \/ by = "getByPlaceholder" /\ Descriptor(id).placeholder
                        \/ by = "getByText" /\ Descriptor(id).text
                        \/ by = "locator")

\* The live check of a candidate passed: no throw, count() = 1, isVisible()
CheckPassed(event) ==
  ~event.live.throws /\ event.live.count = 1 /\ event.live.visible

\* The candidates the call has checked so far, in order
Checks == SelectSeq(trace, LAMBDA event : event.op = "check")

\* C28: once getRobustLocator has ended for the target of a click, either
\* it returned a candidate: then the candidates checked are the first ones
\* of the order test-id, role, placeholder, text, xpath that have data, all
\* before the last one failed or threw, and the last one passed and is the
\* locator returned; or the call failed with the selector error: then every
\* candidate with data was checked, none passed, and no action primitive
\* ran.
C28_FirstPassingCandidate ==
  LET order == SynthesizerOrder(plan.targetId)
      n == Len(Checks)
  IN /\ pc = "exec_el" =>
          /\ n \in 1..Len(order)
          /\ \A i \in 1..n : Checks[i].locator = Locator(plan.targetId, order[i])
          /\ \A i \in 1..(n - 1) : ~CheckPassed(Checks[i])
          /\ CheckPassed(Checks[n])
          /\ ex.locator = Locator(plan.targetId, order[n])
          /\ trace = Checks
     /\ (pc = "result" /\ ~result.success /\ result.raw = MsgNoRobustSelector.text) =>
          /\ n = Len(order)
          /\ \A i \in 1..n : Checks[i].locator = Locator(plan.targetId, order[i])
          /\ \A i \in 1..n : ~CheckPassed(Checks[i])
          /\ trace = Checks
     /\ (pc = "result" /\ trace # Checks) =>
          /\ n >= 1
          /\ CheckPassed(Checks[n])
          /\ trace = Append(Checks, Event("click", Locator(plan.targetId, order[n]), NoLive))

\* The role candidate threw, the placeholder candidate was not visible and
\* the text candidate was returned
C28_Witness ==
  /\ pc = "exec_el"
  /\ plan.targetId = "4"
  /\ Len(trace) = 3
  /\ trace[1].live.throws
  /\ trace[2].live.count = 1 /\ ~trace[2].live.visible
  /\ ex.locator = Locator("4", "getByText")

\* The loop body takes the result of executor.execute
TakesResult == pc = "result" /\ pc' # "result"

\* C29: the lastError the planner is given is the one set when the most
\* recent Executor call of the run returned, undefined before the first
\* call: a failure sets it to its translated guidance, which is never
\* empty, a success clears it, and no other step of the run changes it.
C29_LastErrorIsLatestFailure ==
  [][/\ TakesResult =>
          /\ result.success => lastError' = NoAdvice
          /\ ~result.success => lastError' = result.userGuidance /\ lastError' # NoAdvice
     /\ (~TakesResult /\ pc # "start") => lastError' = lastError
     /\ calls'.executor = 0 => lastError' = NoAdvice]_vars

\* The planner is called a second time, after a failed Executor call, with
\* that failure's guidance
C29_Witness ==
  /\ pc = "think"
  /\ calls.planner = 2
  /\ calls.executor = 1
  /\ lastError = Translate(MsgTimeout)
  /\ Last(history).kind = "ERROR"

\* C30: the loop body appends one history entry per Executor call, SUCCESS
\* or ERROR as result.success says, before the next observation, and
\* nothing else changes the history; the script gets the code of a
\* successful result that has code, in that same step, never after the
\* emitter is finalized, and from nowhere else.
C30_HistoryAndScriptInStepOrder ==
  [][/\ TakesResult =>
          /\ history' = Append(history,
                               Entry(IF result.success THEN "SUCCESS" ELSE "ERROR",
                                     plan.actionType,
                                     IF result.success THEN NoAdvice ELSE result.error))
          /\ script' = IF result.success /\ result.code # NoCode
                       THEN Append(script, result.code) ELSE script
          /\ ~finalized
     /\ ~TakesResult => history' = history /\ script' = script
     /\ pc' = "observe" => Len(history') = calls'.executor]_vars

\* The second step has executed: an error entry, then a success whose code
\* is in the script, before the emitter is finalized
C30_Witness ==
  /\ pc = "head"
  /\ ~finalized
  /\ Len(history) = 2
  /\ history[1].kind = "ERROR"
  /\ history[2].kind = "SUCCESS"
  /\ Len(script) = 1

------------------------------------------------------------------------------
(***************************************************************************)
(* Claims about the executor's results and the Context Manager, II         *)
(***************************************************************************)
\* The code Executor.execute returns for a finish plan
FinishCode == Code("// Task Finished", <<>>, "")

\* A plan that asks to finish
AsksToFinish(pl) == pl.actionType = "finish" \/ pl.isFinished

\* C31 as stated: executing a plan whose actionType is finish or whose
\* isFinished is true returns success with no generated code, and the loop
\* appends nothing to the script for it.
C31_FinishReturnsNoCode ==
  [][TakesResult /\ AsksToFinish(plan) =>
       /\ result.success
       /\ result.code = NoCode
       /\ script' = script]_vars

\* C31 amended: in a run of the loop a plan with isFinished true never
\* reaches the executor; a finish plan executed while the Context Manager
\* has an active page returns success, not retryable, with the comment
\* "// Task Finished" as its generated code, and the loop appends that
\* comment to the script; with no page left the call fails with the
\* translation of "No open pages found in context." and nothing is appended.
C31_FinishAppendsComment ==
  [][/\ pc' = "exec" /\ pc # "exec" => ~plan'.isFinished
     /\ pc = "exec" /\ pc' = "result" /\ AsksToFinish(plan) =>
          result' = IF GetActivePage(cm).threw THEN Failure(MsgNoOpenPages)
                    ELSE [success |-> TRUE, code |-> FinishCode, error |-> NoAdvice,
                          userGuidance |-> NoAdvice, raw |-> "", retryable |-> FALSE]
     /\ TakesResult /\ AsksToFinish(plan) =>
          script' = IF result.success THEN Append(script, FinishCode) ELSE script]_vars

\* A finish plan has been executed and its comment is the script's last line
C31_Witness ==
  /\ pc = "head"
  /\ calls.executor > 0
  /\ script # <<>>
  /\ Last(script) = FinishCode
  /\ Last(history) = Entry("SUCCESS", "finish", NoAdvice)

\* Executor.execute returns a failure
ExecuteFails == pc # "result" /\ pc' = "result" /\ ~result'.success

\* The error's message contains one of the seven fatal substrings
HasFatalText(text) ==
  \/ Occurs("requires a target", text)
  \/ Occurs("requires targetId", text)
  \/ Occurs("requires a URL", text)
  \/ Occurs("Unsupported action", text)
  \/ Occurs("not found in memory", text)
  \/ Occurs("not found", text)
  \/ Occurs("Target ID is missing", text)

\* C32: when Executor.execute fails, the result is not retryable if and
\* only if the text of the raised error contains one of the seven fatal
\* substrings; every other error gives retryable = true.
C32_RetryableIffNotFatal ==
  [][ExecuteFails => (result'.retryable <=> ~HasFatalText(result'.raw))]_vars

\* A failure whose only fatal substring is "not found": switch_tab to a
\* title no page matches
C32_Witness ==
  /\ pc = "result"
  /\ ~result.success
  /\ ~result.retryable
  /\ result.raw = MsgTabNotFound.text
  /\ plan.actionType = "switch_tab"

\* C33: a scroll plan with no targetId, executed while the Context Manager
\* has an active page, succeeds without a catalog lookup, and the
\* non-interactive loop goes on to a new observation.
C33_ScrollWithoutTargetSucceeds ==
  [][/\ pc = "exec" /\ pc' = "result" /\ ~GetActivePage(cm).threw
        /\ plan.actionType = "scroll" /\ plan.targetId = NoValue
        => result'.success
     /\ TakesResult /\ ~opts.interactive /\ plan.actionType = "scroll"
        /\ plan.targetId = NoValue /\ result.success
        => pc' = "head"]_vars

RECURSIVE UrlProtocol(_, _)
\* new URL(value, page.url()).protocol of a value that names its scheme,
\* "" for a value with no scheme (a relative reference)
UrlProtocol(value, i) ==
  IF i > Len(value) THEN ""
  ELSE IF SubSeq(value, i, i) = ":" THEN SubSeq(value, 1, i)
  ELSE IF SubSeq(value, i, i) = "/" THEN ""
  ELSE UrlProtocol(value, i + 1)

\* A navigate value the validation accepts: http or https, or a reference
\* relative to the page's URL
PassesUrlValidation(value) == UrlProtocol(value, 1) \in {"", "http:", "https:"}

\* C34: a navigate plan without value, or with a value that is not an
\* http(s) URL, returns a failure and page.goto is not called; page.goto is
\* called only for a value that is present and passes the validation.
C34_NavigateValidatesUrl ==
  [][pc = "exec" /\ pc' = "result" /\ plan.actionType = "navigate"
     /\ ~(Truthy(plan.value) /\ PassesUrlValidation(plan.value))
     => ~result'.success /\ trace' = trace]_vars

\* The loop calls brain.think: the step from observing to thinking
CallsPlanner == pc = "observe" /\ pc' = "think"

\* The banner of dialog d: the warning sign, its type and its message
Banner(d) ==
  "(!) [Alert Dialog] Type: " \o dialogType[d] \o ", Message: \"" \o DialogMessage(d) \o "\""

\* C35: at every call of the planner, if a dialog is pending in the Context
\* Manager the state text given to the planner starts with that dialog's
\* banner (type and message) and ends with the observed state text; if none
\* is pending the observed state text is given unchanged.
C35_PendingDialogBannerFirst ==
  [][CallsPlanner =>
       IF cm.pendingDialog # NoDialog
       THEN /\ StartsWith(stateWithDialog', Banner(cm.pendingDialog))
            /\ Occurs("\n\n" \o StateText(activePage), stateWithDialog')
            /\ Len(stateWithDialog') > Len(StateText(activePage))
       ELSE stateWithDialog' = StateText(activePage)]_vars

\* The planner is given the banner of a pending beforeunload dialog, then
\* the observed state text
C35_Witness ==
  /\ pc = "think"
  /\ calls.planner = 1
  /\ cm.pendingDialog = 1
  /\ dialogType[1] = "beforeunload"
  /\ stateWithDialog =
       "(!) [Alert Dialog] Type: beforeunload, Message: \"Leave site?\". "
       \o "Use 'handle_dialog' action.\n\nURL: site\n(No visible interactive elements found.)"

\* The handler of dialog d finishes: the timer callback's finally block, or
\* handleDialog's
HandlerFinishes(d) ==
  \/ timerCb[d] = "awaiting" /\ timerCb'[d] = "idle"
  \/ pc = "exec_hd" /\ pc' = "result" /\ ex.dialog = d

\* C36: when the handler of dialog D finishes while the slot holds another
\* dialog, which arrived during D's accept or dismiss, it leaves the slot
\* and the timer reference as they are.
C36_HandlerClearsOnlyItsOwnDialog ==
  [][\A d \in Dialogs :
       HandlerFinishes(d) /\ cm.pendingDialog # NoDialog /\ cm.pendingDialog # d
       => /\ cm'.pendingDialog = cm.pendingDialog
          /\ cm'.pendingDialogTimeout = cm.pendingDialogTimeout]_vars

\* The positions of a call of Executor.execute that has not returned
ExecPcs == {"exec", "exec_sw", "exec_hd", "exec_el"}

\* A step of Executor.execute
Executes ==
  \/ ExecNoPage
  \/ ExecSwitchTab
  \/ ExecSwitchTabDone
  \/ ExecCloseTab
  \/ ExecHandleDialog
  \/ ExecHandleDialogDone
  \/ ExecResolve
  \/ ExecPerform
  \/ ExecNavigate
  \/ ExecFinish

\* The advice for an error of the given text: the first category one of
\* whose substrings occurs in it, else the text, cut after 200 characters
AdviceOfText(text) ==
  IF Occurs("Timeout", text) \/ Occurs("waiting for selector", text)
    THEN Advice("Timeout Error", "")
  ELSE IF Occurs("intercepted", text) \/ Occurs("obscures", text)
    THEN Advice("Interaction Failed", "")
  ELSE IF Occurs("detached", text) \/ Occurs("stale", text) \/ Occurs("target closed", text)
    THEN Advice("Stale Element Error", "")
  ELSE IF Occurs("not visible", text) \/ Occurs("hidden", text)
    THEN Advice("Visibility Error", "")
  ELSE IF Occurs("Navigation failed", text) \/ Occurs("net::", text)
    THEN Advice("Navigation Error", "")
  ELSE Advice("Unknown Execution Error", Slice(text, 200) \o (IF Len(text) > 200 THEN "..." ELSE ""))

\* C37: a call of Executor.execute never raises: whatever the plan, the
\* Context Manager's state and the driver's answers, the call can always
\* take its next step, that step stays in the call or returns a result,
\* and a failure's error and userGuidance both are the translation of the
\* error raised.
C37_ExecuteAlwaysReturnsResult ==
  [][/\ pc \in ExecPcs => ENABLED Executes
     /\ pc \in ExecPcs => pc' \in ExecPcs \cup {"result"}
     /\ ExecuteFails =>
          /\ result'.error = AdviceOfText(result'.raw)
          /\ result'.userGuidance = result'.error]_vars

\* handle_dialog fails on a dialog that the safety-net timer has already
\* dismissed: the driver's exception comes back as a result
C37_Witness ==
  /\ pc = "result"
  /\ plan.actionType = "handle_dialog"
  /\ ~result.success
  /\ result.raw = MsgDialogHandled.text
  /\ result.error = Advice("Unknown Execution Error", MsgDialogHandled.text)
  /\ result.userGuidance = result.error

\* No page is in the return stack twice
StackPagesDistinct ==
  \A i, j \in 1..Len(cm.pageStack) : cm.pageStack[i] = cm.pageStack[j] => i = j

\* Every page of the return stack is in the page list
StackPagesListed ==
  \A i \in 1..Len(cm.pageStack) : \E k \in 1..Len(cm.pages) : cm.pages[k] = cm.pageStack[i]

\* C38: the return stack holds no page twice, and only pages of the
\* Context Manager's page list.
C38_StackDistinctAndListed == StackPagesDistinct /\ StackPagesListed

\* browserContext.pages(): the open pages of the context, in the order
\* they were created
ContextPages == SelectSeq([p \in Pages |-> p], LAMBDA p : pageState[p] = "open")

\* switchToTab picks page p by its index (the step up to bringToFront)
SwitchPicksByIndex(p) ==
  /\ pc = "exec" /\ pc' = "exec_sw"
  /\ ex'.page = p
  /\ ex'.arg # "match"

\* C39: when switch_tab with an integer value i picks a page, the page the
\* Context Manager picks, and activates, is the page that the emitted
\* statement's page.context().pages()[i] designates at that moment.
C39_IndexDesignatesActivatedPage ==
  [][\A p \in Pages :
       SwitchPicksByIndex(p)
       => /\ ParseInt(ex'.arg) < Len(ContextPages)
          /\ ContextPages[ParseInt(ex'.arg) + 1] = p]_vars

------------------------------------------------------------------------------
(***************************************************************************)
(* Claims about the semantic hash                                          *)
(***************************************************************************)
\* The seven things the hash is said to depend on
HashParts == {"tag", "testId", "role", "type", "placeholder", "name", "text"}

\* C40: two elements that agree on tag, test id, role, input type,
\* placeholder, name attribute and the first 20 characters of the text
\* without digits have the same hash input and the same hash; a change of
\* one of the seven changes the hash input; a change of the id, the class
\* or the digits of the text changes neither.
C40_HashOfExactlySevenParts ==
  Len(obs.hashes) = 2 =>
    /\ obs.change \in HashParts => obs.inputs[1] # obs.inputs[2]
    /\ obs.change \notin HashParts =>
         obs.inputs[1] = obs.inputs[2] /\ obs.hashes[1] = obs.hashes[2]
    /\ obs.inputs[1] = obs.inputs[2] => obs.hashes[1] = obs.hashes[2]

==============================================================================
